---- MODULE Spec2Model ----
(***************************************************************************)
(* Context-window manager of the agent loop: the truncation planner        *)
(* (ContextManager.getNextTruncationRange), its caller                     *)
(* (Task.attemptApiRequest, Task.handleStreamingError) and the overlay of  *)
(* context updates (ContextManager.contextHistoryUpdates); and the         *)
(* checkpoints of a task (CheckpointTracker.commit and restore on the      *)
(* shadow repository, ToolExecutor.executeToolUse, Task.addCheckpoint).    *)
(***************************************************************************)
EXTENDS Integers, Sequences, FiniteSets, TLC

\* ---------------------------------------------------------------- bounds
MaxMessages == 40
\* length of the history the overlay operations are tried on
StoreMessages == 21
\* content blocks per message
BlocksPerMessage == 2
\* updates the overlay holds at most
MaxUpdates == 2
\* the clock stops after this many half days
MaxHalfDays == 2
\* the checkpointed file takes contents 1 .. MaxContent
MaxContent == 2
\* commits the shadow repository holds at most
MaxCommits == 3
\* tool_use blocks one assistant message holds at most
MaxBlocks == 2

\* messages addToClineMessages is called with
MaxSaved == 3

\* flushPendingUpdates calls that can be in flight together
MaxFlushes == 2

\* lines of an ignore file
MaxLines == 2

\* segments of a file path handed to FileManager
MaxSegments == 2

\* content blocks of an assistant response of the web task
MaxWebBlocks == 2

\* API requests of the web task
MaxRequests == 2

\* the requests the rate limiter handles, and how far its clock runs
MaxArrivals == 4
MaxClock == 5

\* the options of the rate limiter: the length of a window and the
\* requests let through in one
windowMs == 2
maxRequests == 2

\* the requests of the API client that can await a response together, and
\* the original requests made
MaxDepth == 4
MaxApiCalls == 4

\* the closeTerminal calls of one terminal that await the save together
MaxClosing == 2

\* the calls of the auth store that await a response together, and the
\* logouts made
MaxAuthCalls == 2
MaxLogouts == 2

\* how far reconnectAttempts is counted
MaxAttempts == 2

\* the commits commit() makes between edits and restores of the working
\* tree
MaxCheckpoints == 1

\* the content blocks of an assistant message that is presented
MaxPresentBlocks == 2

\* how often executeToolUse is called for one block
MaxExecutions == 2

\* ------------------------------------------------------ program constants
\* "totalMessages - 10" in getNextTruncationRange
TailKeep == 10
\* "24 * 60 * 60 * 1000" in pruneOldContextUpdates
DayMs == 86400000

VARIABLES
    N,                  \* apiConversationHistory.length
    range,              \* taskState.conversationHistoryDeletedRange
    api,                \* the model profile in use (getContextWindowInfo)
    didAutomaticallyRetryFailedApiRequest,
    omitted,            \* indices left out of the history last handed
                        \* to the model (the rest of it was sent)
    fileReads,          \* <<index, path>>: the message holds a read of path
    contextHistoryUpdates,  \* <<messageIndex, blockIndex>> -> updates
    now,                \* Date.now()
    last                \* what the last step did (history variable)

VARIABLES
    work,               \* content of the checkpointed file in workingDir
    ignored,            \* content of a file matched by an exclusion
    index,              \* the shadow repository's staged content
    commits,            \* the shadow repository's commits, by hash
    head,               \* git rev-parse HEAD
    checkpoints,        \* Task.checkpoints: the gitCommit of each entry
    toolpc,             \* where executeToolUse stands
    cpc,                \* where CheckpointTracker.commit stands
    ret,                \* the hash commit() has returned, not yet recorded
    rpc,                \* where CheckpointTracker.restore stands
    rhash,              \* the hash restore() was called with
    pristine,           \* the commit returned last, while no file was
                        \* touched since (history variable)
    handling,           \* TRUE while handleToolExecutionError runs
    restored,           \* the hash the repository was last reset to and
                        \* whether that was verified, while nothing else
                        \* ran since (history variable)
    gitConfig           \* the shadow repository's configuration

VARIABLES
    abort,              \* taskState.abort
    loopPc,             \* where the task loop stands
    blocksLeft          \* tool_use blocks of the assistant message not
                        \* presented yet

VARIABLES
    clineMessages,      \* number of messages MessageStateHandler holds
    pendingUpdates,     \* the messages waiting for a save
    saveTimer,          \* TRUE while the 1-second save timer is armed
    flushes,            \* the flushPendingUpdates calls: where each stands
                        \* and the messages it serialized
    disk,               \* the messages file of the task directory
    lastGood            \* what the last successful save wrote (history
                        \* variable)

VARIABLES
    gitignore,          \* workingDir/.gitignore: whether it exists, its lines
    clineignore,        \* workingDir/.clineignore, likewise
    patterns,           \* what getExclusionPatterns returned last
    patternsFor         \* the two files as that call read them (history
                        \* variable; empty before the first call)

VARIABLES
    accessed            \* the repository and the resolved path of the file
                        \* system call FileManager made last (empty when
                        \* it made none)

VARIABLES
    atCommit            \* the checkpointed file as it was when commit()
                        \* made the newest commit (history variable)

\* the parts of the web application, each a record of the fields its
\* specification names where it is constructed
VARIABLES
    webTask,            \* ClineWebTask and the status of its Task entity
    rateLimiter,        \* MemoryRateLimitStore, the server's clock and the
                        \* requests handled
    apiClient,          \* the axios instance, localStorage and the window
    terminalManager,    \* TerminalManager and the PTY processes
    authStore,          \* useAuthStore
    socketStore,        \* useSocketStore
    presentState        \* taskState of presentAssistantMessage

planVars == <<range, api, didAutomaticallyRetryFailedApiRequest, omitted>>
storeVars == <<fileReads, contextHistoryUpdates, now>>
treeVars == <<work, ignored, index>>
repoVars == <<commits, head>>
\* the error handler, the restore history and the configuration
trackVars == <<handling, restored, gitConfig>>
ckptVars == <<treeVars, repoVars, checkpoints, toolpc, cpc, ret, rpc,
              rhash, pristine, trackVars>>
loopVars == <<abort, loopPc, blocksLeft>>
flushVars == <<clineMessages, pendingUpdates, saveTimer, flushes, disk,
               lastGood>>
\* what the task loop leaves alone, beside the planner and the overlay
exclVars == <<gitignore, clineignore, patterns, patternsFor>>
\* the web application
appVars == <<webTask, atCommit, rateLimiter, apiClient, terminalManager,
             authStore, socketStore, presentState>>
moreVars == <<flushVars, exclVars, accessed, appVars>>
\* the extension's side, which the web application leaves alone
quietVars == <<N, planVars, storeVars, ckptVars, loopVars, flushVars,
               exclVars, accessed>>
offWebVars == <<quietVars, atCommit, rateLimiter, apiClient,
                terminalManager, authStore, socketStore, presentState>>
\* what commit() and restore() as whole calls leave alone
offTreeVars == <<N, planVars, storeVars, loopVars, flushVars, exclVars,
                 accessed, webTask, rateLimiter, apiClient,
                 terminalManager, authStore, socketStore, presentState>>
offRateVars == <<quietVars, webTask, atCommit, apiClient, terminalManager,
                 authStore, socketStore, presentState>>
offApiVars == <<quietVars, webTask, atCommit, rateLimiter, terminalManager,
                authStore, socketStore, presentState>>
offTermVars == <<quietVars, webTask, atCommit, rateLimiter, apiClient,
                 authStore, socketStore, presentState>>
offAuthVars == <<quietVars, webTask, atCommit, rateLimiter, apiClient,
                 terminalManager, socketStore, presentState>>
offSockVars == <<quietVars, webTask, atCommit, rateLimiter, apiClient,
                 terminalManager, authStore, presentState>>
offPresentVars == <<quietVars, webTask, atCommit, rateLimiter, apiClient,
                    terminalManager, authStore, socketStore>>
sideVars == <<loopVars, moreVars>>
\* everything the checkpoint operations leave alone
offCkptVars == <<N, planVars, storeVars, sideVars>>
vars == <<N, planVars, storeVars, ckptVars, sideVars, last>>

\* content of a file that does not exist; a hash that names no commit
Absent == 0
NoHash == 0

\* a commit: the tree it holds and its parent
Commit(snap, parent) == [snap |-> snap, parent |-> parent]

\* the messages file: how many messages it holds, and whether a write
\* stopped half way through it
File(written, torn) == [written |-> written, torn |-> torn]

\* a flushPendingUpdates call: its position and the messages it serialized
Flush(pc, snapshot) == [pc |-> pc, snapshot |-> snapshot]

\* a new MessageStateHandler: no message, no timer, no file yet
HandlerCreated ==
    /\ clineMessages = 0
    /\ pendingUpdates = {}
    /\ saveTimer = FALSE
    /\ flushes = [i \in 1 .. MaxFlushes |-> Flush("idle", 0)]
    /\ disk = File(0, FALSE)
    /\ lastGood = File(0, FALSE)

\* no task loop is running
LoopIdle ==
    /\ abort = FALSE
    /\ loopPc = "head"
    /\ blocksLeft = 0

\* an ignore file: whether it exists, and its lines
IgnoreFile(exists, lines) == [exists |-> exists, lines |-> lines]

NoFile == IgnoreFile(FALSE, <<>>)

\* the working directory has no ignore file and getExclusionPatterns was
\* not called
NoExclusions ==
    /\ gitignore = NoFile
    /\ clineignore = NoFile
    /\ patterns = <<>>
    /\ patternsFor = {}

\* a part of the web application that is not running
NotRunning == "not running"

\* a new ClineWebTask for a task that is pending
WebTaskCreated ==
    webTask = [taskStatus |-> "pending",    \* context.task.status
               shouldAbort |-> FALSE,       \* ClineWebTask.shouldAbort
               isRunning |-> FALSE,         \* ClineWebTask.isRunning
               webPc |-> "created",         \* where initialize /
                                            \* initiateTaskLoop stands
               requests |-> 0,              \* the API requests made so far
               conversationHistory |-> <<>>,
               assistantMessageContent |-> <<>>,    \* the blocks of the
                                            \* response in hand
               blockIndex |-> 1]            \* the block processApiResponse
                                            \* handles next

\* a new rate limiter: the store is empty and no request has come
RateLimiterCreated ==
    rateLimiter = [store |-> <<>>,          \* MemoryRateLimitStore.store:
                                            \* key -> entry
                   dateNow |-> 0,           \* Date.now() of the server
                   handled |-> <<>>]        \* the requests handled, in
                                            \* order: key, time, count and
                                            \* outcome (history)

\* the API client is loaded, nobody is logged in and no request was made
ApiClientLoaded ==
    apiClient = [inFlight |-> <<>>,         \* the requests that await their
                                            \* response, the one sent last
                                            \* at the end: each the original
                                            \* request or a refresh made for
                                            \* the one before it
                 authData |-> FALSE,        \* localStorage holds
                                            \* "cline-auth" with a token
                 href |-> "/",              \* window.location.href
                 refreshes |-> 0,           \* POST /auth/refresh sent since
                                            \* the original request was made
                                            \* (history)
                 apiCalls |-> 0]            \* the original requests made

\* the terminals the server can create
Terminals == {"terminal_1", "terminal_2"}

\* a new TerminalManager: no terminal was created
NoTerminals ==
    terminalManager =
        [sessions |-> {},                   \* TerminalManager.sessions: the
                                            \* ids it holds
         ptyState |-> [t \in Terminals |-> "none"], \* the PTY process of
                                            \* each terminal
         closing |-> [t \in Terminals |-> 0],   \* the closeTerminal calls
                                            \* of each terminal that await
                                            \* terminalRepository.save
         closedEmitted |-> [t \in Terminals |-> 0]] \* how often "closed"
                                            \* was emitted for each terminal

\* null of the auth store
Null == "null"

\* the auth store as created: nobody is logged in
AuthStoreCreated ==
    authStore = [authUser |-> Null,         \* user
                 authToken |-> Null,        \* token
                 isAuthenticated |-> FALSE,
                 isLoading |-> FALSE,
                 authError |-> Null,        \* error
                 authCalls |-> {},          \* the authService calls that
                                            \* await their response, each
                                            \* with the number of logouts
                                            \* made before it started
                 logouts |-> 0,             \* the logout() calls made
                 loggedInSince |-> FALSE]   \* a login or register started
                                            \* after the last logout has
                                            \* succeeded (history)

\* the socket store as created
SocketStoreCreated ==
    socketStore = [socket |-> Null,
                   isConnected |-> FALSE,
                   connectionError |-> Null,
                   reconnectAttempts |-> 0,
                   listening |-> {}]        \* the sockets connect() has put
                                            \* its listeners on

\* no assistant message has been streamed or presented
NothingPresented ==
    presentState =
        [presentAssistantMessageLocked |-> FALSE,   \* a pass is running
         presentAssistantMessageHasPendingUpdates |-> FALSE,    \* a call
                                            \* came while the lock was held
         currentStreamingContentIndex |-> 0,    \* the block to present
                                            \* next, counted from 0
         contentBlocks |-> <<>>,            \* taskState.
                                            \* assistantMessageContent
         presentPc |-> "idle",              \* where the pass that holds
                                            \* the lock stands
         presentError |-> FALSE,            \* a block of the pass has thrown
         inPass |-> 0,                      \* the calls between taking the
                                            \* lock and releasing it
         executed |-> [i \in 1 .. MaxPresentBlocks |-> 0]]  \* how often
                                            \* executeToolUse was called for
                                            \* each block (history)

\* the web application with one of its parts constructed and the others
\* not running
AppWith(part) ==
    /\ IF part = "webTask" THEN WebTaskCreated ELSE webTask = NotRunning
    /\ atCommit = Absent
    /\ IF part = "rateLimiter" THEN RateLimiterCreated
       ELSE rateLimiter = NotRunning
    /\ IF part = "apiClient" THEN ApiClientLoaded
       ELSE apiClient = NotRunning
    /\ IF part = "terminalManager" THEN NoTerminals
       ELSE terminalManager = NotRunning
    /\ IF part = "authStore" THEN AuthStoreCreated
       ELSE authStore = NotRunning
    /\ IF part = "socketStore" THEN SocketStoreCreated
       ELSE socketStore = NotRunning
    /\ IF part = "presentState" THEN NothingPresented
       ELSE presentState = NotRunning

\* the web application is not running
AppIdle == AppWith("none")

\* no task loop is running, nothing was added to the messages, no ignore
\* file exists and FileManager was not called
SideIdle ==
    /\ LoopIdle
    /\ HandlerCreated
    /\ NoExclusions
    /\ accessed = {}
    /\ AppIdle

\* initShadowGit's settings: user.name, user.email, core.autocrlf and
\* core.worktree
BotConfig ==
    [name |-> "Cline Checkpoints", email |-> "checkpoints@cline.bot",
     autocrlf |-> "false", worktree |-> "workingDir"]

\* no reset since the last other operation
NotRestored == [hash |-> NoHash, verified |-> FALSE]

\* CheckpointTracker.create: the shadow repository holds the initial
\* commit of the working file w, and no checkpoint is recorded
TrackerCreated(w) ==
    /\ work = w
    /\ ignored = Absent
    /\ index = w
    /\ commits = <<Commit(w, NoHash)>>
    /\ head = 1
    /\ checkpoints = <<>>
    /\ toolpc = "idle"
    /\ cpc = "idle"
    /\ ret = NoHash
    /\ rpc = "idle"
    /\ rhash = NoHash
    /\ pristine = NoHash
    /\ handling = FALSE
    /\ restored = NotRestored
    /\ gitConfig = BotConfig

\* conversationHistoryDeletedRange is `[number, number] | undefined`
NoRange == <<>>

\* getContextWindowInfo: { size, buffer } per model id
ContextWindows ==
    { [size |-> 64000, buffer |-> 27000],
      [size |-> 128000, buffer |-> 30000] }

\* the budget attemptApiRequest compares the previous request's tokens to
maxAllowedSize(p) == p.size - p.buffer

\* token totals of the previous request that the model tries, around the
\* budget: just under, equal, 1.3x, 2x, above 2x
TokenSamples(max) ==
    {max - 1, max, (13 * max) \div 10, 2 * max, 2 * max + 1}

Min(a, b) == IF a < b THEN a ELSE b

\* Math.floor(totalMessages * 0.25) / Math.floor(totalMessages * 0.5)
truncateAmount(totalMessages, truncationType) ==
    IF truncationType = "quarter"
    THEN totalMessages \div 4
    ELSE totalMessages \div 2

\* const startIndex = currentRange ? currentRange[1] + 1 : 1
startIndex(currentRange) ==
    IF currentRange # NoRange THEN currentRange[2] + 1 ELSE 1

\* ContextManager.getNextTruncationRange
getNextTruncationRange(totalMessages, currentRange, truncationType) ==
    LET s == startIndex(currentRange)
        e == Min(s + truncateAmount(totalMessages, truncationType),
                 totalMessages - TailKeep)
    IN  <<s, e>>

\* totalTokens / 2 > maxAllowedSize ? "quarter" : "half"
truncationTypeFor(totalTokens, max) ==
    IF totalTokens > 2 * max THEN "quarter" ELSE "half"

\* a caller that truncates on every request
rangeAfterAttempt_Always(n, r, totalTokens, max) ==
    getNextTruncationRange(n, r, truncationTypeFor(totalTokens, max))

\* the range attemptApiRequest leaves in taskState
rangeAfterAttempt(n, r, totalTokens, max) ==
    IF totalTokens >= max
    THEN getNextTruncationRange(n, r, truncationTypeFor(totalTokens, max))
    ELSE r

InRange(i, r) == r # NoRange /\ r[1] <= i /\ i <= r[2]

\* a filter that applies the range without guarding the tail
keptIndices_NoTailGuard(n, r) ==
    { i \in 0 .. n - 1 : ~InRange(i, r) \/ i = 0 }

\* ContextStore.getEffectiveMessages: the indices kept
keptIndices(n, r) ==
    { i \in 0 .. n - 1 : ~InRange(i, r) \/ i = 0 \/ i >= n - TailKeep }

\* the record of a step: the operation, the token total it was given, how
\* it ended and what it was called with
Step(op, tokens, status, arg) ==
    [op |-> op, tokens |-> tokens, status |-> status, arg |-> arg]

NoStep == Step("none", 0, "ok", <<>>)

\* an overlay with no update
NoUpdates == [k \in {} |-> <<>>]

InitPlan ==
    /\ TrackerCreated(1)
    /\ SideIdle
    /\ N = 1
    /\ range = NoRange
    /\ api \in ContextWindows
    /\ didAutomaticallyRetryFailedApiRequest = FALSE
    /\ omitted = {}
    /\ fileReads = {}
    /\ contextHistoryUpdates = NoUpdates
    /\ now = 0
    /\ last = NoStep

\* a message is appended to the api conversation history
AppendMessage ==
    /\ UNCHANGED <<ckptVars, sideVars>>
    /\ N < MaxMessages
    /\ N' = N + 1
    /\ last' = Step("append", 0, "ok", <<>>)
    /\ UNCHANGED <<planVars, storeVars>>

\* the user switches the model in the middle of the task
SwitchModel ==
    /\ UNCHANGED <<ckptVars, sideVars>>
    /\ \E p \in ContextWindows \ {api} : api' = p
    /\ last' = Step("switch", 0, "ok", <<>>)
    /\ UNCHANGED <<N, range, didAutomaticallyRetryFailedApiRequest,
                   omitted, storeVars>>

\* Task.attemptApiRequest
AttemptApiRequest ==
    /\ UNCHANGED <<ckptVars, sideVars>>
    /\ \E totalTokens \in TokenSamples(maxAllowedSize(api)) :
           LET max == maxAllowedSize(api)
               r   == rangeAfterAttempt(N, range, totalTokens, max)
           IN  /\ range' = r
               /\ omitted' = (0 .. N - 1) \ keptIndices(N, r)
               /\ last' = Step("attempt", totalTokens, "ok", <<>>)
               /\ UNCHANGED <<N, api, didAutomaticallyRetryFailedApiRequest,
                              storeVars>>

\* Task.handleStreamingError, context-window error branch: truncate a
\* quarter, then re-issue the request
HandleStreamingError ==
    /\ UNCHANGED <<ckptVars, sideVars>>
    /\ ~didAutomaticallyRetryFailedApiRequest
    /\ \E totalTokens \in TokenSamples(maxAllowedSize(api)) :
        LET max == maxAllowedSize(api)
            r1  == getNextTruncationRange(N, range, "quarter")
            r   == rangeAfterAttempt(N, r1, totalTokens, max)
        IN  /\ range' = r
            /\ omitted' = (0 .. N - 1) \ keptIndices(N, r)
            /\ last' = Step("streamingError", totalTokens, "ok", <<>>)
    /\ didAutomaticallyRetryFailedApiRequest' = TRUE
    /\ UNCHANGED <<N, api, storeVars>>

NextPlan ==
    \/ AppendMessage
    \/ SwitchModel
    \/ AttemptApiRequest
    \/ HandleStreamingError

SpecPlan == InitPlan /\ [][NextPlan]_vars

\* ------------------------------------------------------------------------
\* The overlay of context updates (ContextStore)
\* ------------------------------------------------------------------------

\* file paths the tool results read
Paths == {"a.ts", "b.ts"}

\* the message indices at which the history may hold a file read
ReadSlots == {5, 20}

\* the block indices of a message
Blocks == 0 .. BlocksPerMessage - 1

Last(seq) == seq[Len(seq)]

\* the histories tried: each slot holds a read of one path or none
FileReadHistories ==
    { S \in SUBSET (ReadSlots \X Paths) :
        \A x \in S, y \in S : x[1] = y[1] => x = y }

\* what a block of the raw history holds: block 0 of a message with a file
\* read holds the file's content
originalContent(m, b) ==
    IF b = 0 /\ \E p \in Paths : <<m, p>> \in fileReads
    THEN [kind |-> "file",
          path |-> CHOOSE p \in Paths : <<m, p>> \in fileReads]
    ELSE [kind |-> "text", path |-> ""]

\* a replacement text that does not name the file
placeholder_NoPath(filePath) == [kind |-> "previouslyRead", path |-> ""]

\* `[File ${filePath} was previously read - content available in context]`
placeholder(filePath) == [kind |-> "previouslyRead", path |-> filePath]

\* a timestamp that was never set
readTimestamp_Unset(clock) == 0

\* "timestamp: Date.now()" in handleReadFileToolCall
readTimestamp(clock) == clock

\* hasFileBeenRead(filePath, messageIndex): an earlier message read the path
hasFileBeenRead(filePath, messageIndex) ==
    \E x \in fileReads : x[2] = filePath /\ x[1] < messageIndex

\* the number of updates the overlay holds
updateCount(ov) ==
    LET RECURSIVE Sum(_)
        Sum(ks) == IF ks = {} THEN 0
                   ELSE LET k == CHOOSE x \in ks : TRUE
                        IN  Len(ov[k]) + Sum(ks \ {k})
    IN  Sum(DOMAIN ov)

\* addContextUpdate(messageIndex, blockIndex, [update]): appends
addContextUpdate(ov, m, b, u) ==
    [k \in DOMAIN ov \cup {<<m, b>>} |->
        IF k = <<m, b>>
        THEN Append(IF k \in DOMAIN ov THEN ov[k] ELSE <<>>, u)
        ELSE ov[k]]

\* the index addresses a block of a known message
validIndex(n, m, b) == m \in 0 .. n - 1 /\ b \in Blocks

\* a recordUpdate that appends whatever the index is
recordUpdate_Unchecked(ov, n, m, b, u) ==
    [status |-> "ok", overlay |-> addContextUpdate(ov, m, b, u)]

\* ContextStore.recordUpdate: the outcome and the overlay it leaves
recordUpdate(ov, n, m, b, u) ==
    IF validIndex(n, m, b)
    THEN [status |-> "ok", overlay |-> addContextUpdate(ov, m, b, u)]
    ELSE [status |-> "InvalidIndexError", overlay |-> ov]

\* a filter that also keeps an update made exactly at the cutoff
filterUpdates_Inclusive(updates, cutoffTime) ==
    SelectSeq(updates, LAMBDA u : u.timestamp >= cutoffTime)

\* updates.filter(update => update.timestamp > cutoffTime)
filterUpdates(updates, cutoffTime) ==
    SelectSeq(updates, LAMBDA u : u.timestamp > cutoffTime)

\* the keys whose filtered updates are not empty
survivingKeys(ov, cutoffTime) ==
    { k \in DOMAIN ov : Len(filterUpdates(ov[k], cutoffTime)) # 0 }

\* a prune that stops after the first block it visits
pruneOlderThan_FirstKeyOnly(ov, cutoffTime) ==
    IF DOMAIN ov = {} THEN ov
    ELSE LET first == CHOOSE k \in DOMAIN ov :
                          \A x \in DOMAIN ov : k[1] <= x[1]
             kept == (DOMAIN ov \ {first}) \cup
                     (survivingKeys(ov, cutoffTime) \cap {first})
         IN  [k \in kept |-> IF k = first
                             THEN filterUpdates(ov[k], cutoffTime)
                             ELSE ov[k]]

\* ContextManager.pruneOldContextUpdates, for a given cutoff
pruneOlderThan(ov, cutoffTime) ==
    [k \in survivingKeys(ov, cutoffTime) |->
        filterUpdates(ov[k], cutoffTime)]

\* what a block renders as: its latest update, else its original content
renderBlock(ov, m, b) ==
    IF <<m, b>> \in DOMAIN ov
    THEN Last(ov[<<m, b>>]).update
    ELSE originalContent(m, b)

\* ContextStore.getEffectiveMessages: the kept messages, rendered
getEffectiveMessages(n, r, ov) ==
    [i \in keptIndices(n, r) |-> [b \in Blocks |-> renderBlock(ov, i, b)]]

\* the elements of a finite set of numbers, smallest first
SortedSeq(S) ==
    LET RECURSIVE Sort(_)
        Sort(T) == IF T = {} THEN <<>>
                   ELSE LET m == CHOOSE x \in T : \A y \in T : x <= y
                        IN  <<m>> \o Sort(T \ {m})
    IN  Sort(S)

\* the saved form of the overlay: the entries of the outer map, each
\* <<messageIndex, entries of the inner map>>, an inner entry being
\* <<blockIndex, updates>>
serialize(ov) ==
    LET msgs == SortedSeq({k[1] : k \in DOMAIN ov})
        inner(m) ==
            LET bs == SortedSeq({k[2] : k \in {x \in DOMAIN ov : x[1] = m}})
            IN  [j \in 1 .. Len(bs) |-> <<bs[j], ov[<<m, bs[j]>>]>>]
    IN  [i \in 1 .. Len(msgs) |-> <<msgs[i], inner(msgs[i])>>]

\* the keys the saved form holds
savedKeys(saved) ==
    UNION { { <<saved[i][1], saved[i][2][j][1]>> :
                j \in 1 .. Len(saved[i][2]) } : i \in 1 .. Len(saved) }

\* the updates the saved form holds for a key
savedUpdates(saved, k) ==
    LET i == CHOOSE x \in 1 .. Len(saved) : saved[x][1] = k[1]
        j == CHOOSE y \in 1 .. Len(saved[i][2]) : saved[i][2][y][1] = k[2]
    IN  saved[i][2][j][2]

\* the reverse of a sequence
Reverse(seq) == [i \in 1 .. Len(seq) |-> seq[Len(seq) + 1 - i]]

\* a reload that rebuilds each block's updates newest first
deserialize_NewestFirst(saved) ==
    [k \in savedKeys(saved) |-> Reverse(savedUpdates(saved, k))]

\* getSavedContextHistory: the maps rebuilt from the saved entries
deserialize(saved) ==
    [k \in savedKeys(saved) |-> savedUpdates(saved, k)]

\* truncation ranges the rendering is compared under
SampleRanges == {NoRange, <<1, 11>>}

\* the message and block indices recordUpdate is tried with: two known
\* messages, one past the end and one before the start
UpdateIndices == ReadSlots \cup {N, -1}
UpdateBlocks == 0 .. BlocksPerMessage

\* the (updateType, value) pairs recordUpdate is tried with
UpdateInputs == {<<"replace", "v1">>, <<"note", "v2">>}

InitStore ==
    /\ TrackerCreated(1)
    /\ SideIdle
    /\ N = StoreMessages
    /\ range = NoRange
    /\ api = [size |-> 128000, buffer |-> 30000]
    /\ didAutomaticallyRetryFailedApiRequest = FALSE
    /\ omitted = {}
    /\ fileReads \in FileReadHistories
    /\ contextHistoryUpdates = NoUpdates
    /\ now = DayMs
    /\ last = NoStep

\* ContextManager.handleReadFileToolCall
HandleReadFileToolCall ==
    /\ UNCHANGED <<ckptVars, sideVars>>
    /\ updateCount(contextHistoryUpdates) < MaxUpdates
    /\ \E x \in fileReads :
        LET messageIndex == x[1]
            filePath     == x[2]
        IN  /\ IF hasFileBeenRead(filePath, messageIndex)
               THEN contextHistoryUpdates' =
                        addContextUpdate(contextHistoryUpdates,
                            messageIndex, 0,
                            [timestamp  |-> readTimestamp(now),
                             updateType |-> "text",
                             update     |-> placeholder(filePath)])
               ELSE UNCHANGED contextHistoryUpdates
            /\ last' = Step("handleRead", 0, "ok", x)
    /\ UNCHANGED <<N, planVars, fileReads, now>>

\* ContextStore.recordUpdate
RecordUpdate ==
    /\ UNCHANGED <<ckptVars, sideVars>>
    /\ updateCount(contextHistoryUpdates) < MaxUpdates
    /\ \E m \in UpdateIndices, b \in UpdateBlocks, tv \in UpdateInputs :
        LET res == recordUpdate(contextHistoryUpdates, N, m, b,
                        [timestamp  |-> now,
                         updateType |-> tv[1],
                         update     |-> [kind |-> tv[2], path |-> ""]])
        IN  /\ contextHistoryUpdates' = res.overlay
            /\ last' = Step("recordUpdate", 0, res.status, <<m, b>>)
    /\ UNCHANGED <<N, planVars, fileReads, now>>

\* ContextManager.pruneOldContextUpdates
PruneOldContextUpdates ==
    /\ UNCHANGED <<ckptVars, sideVars>>
    /\ LET cutoffTime == now - DayMs
       IN  /\ contextHistoryUpdates' =
                   pruneOlderThan(contextHistoryUpdates, cutoffTime)
           /\ last' = Step("prune", 0, "ok",
                       [cutoff  |-> cutoffTime,
                        dropped |-> DOMAIN contextHistoryUpdates
                           \ survivingKeys(contextHistoryUpdates, cutoffTime)])
           /\ UNCHANGED <<N, planVars, fileReads, now>>

\* time passes
Tick ==
    /\ UNCHANGED <<ckptVars, sideVars>>
    /\ now < DayMs + MaxHalfDays * (DayMs \div 2)
    /\ now' = now + DayMs \div 2
    /\ last' = Step("tick", 0, "ok", <<>>)
    /\ UNCHANGED <<N, planVars, fileReads, contextHistoryUpdates>>

\* ContextManager.initializeContextHistory, on the overlay as last saved
InitializeContextHistory ==
    /\ UNCHANGED <<ckptVars, sideVars>>
    /\ contextHistoryUpdates' =
            deserialize(serialize(contextHistoryUpdates))
    /\ last' = Step("reload", 0, "ok", <<>>)
    /\ UNCHANGED <<N, planVars, fileReads, now>>

NextStore ==
    \/ HandleReadFileToolCall
    \/ RecordUpdate
    \/ PruneOldContextUpdates
    \/ Tick

SpecStore == InitStore /\ [][NextStore]_vars

\* the overlays recordUpdate and pruneOlderThan reach, reloaded at any
\* point
NextReload ==
    \/ RecordUpdate
    \/ PruneOldContextUpdates
    \/ Tick
    \/ InitializeContextHistory

\* raw histories the reload is tried on: no file read, and both slots
\* holding a read of the same file
ReloadHistories == { {}, ReadSlots \X {"a.ts"} }

InitReload ==
    /\ InitStore
    /\ fileReads \in ReloadHistories

SpecReload == InitReload /\ [][NextReload]_vars

\* ------------------------------------------------------------------------
\* Checkpoints: CheckpointTracker.commit and restore on the shadow
\* repository, driven by ToolExecutor.executeToolUse and by the user
\* ------------------------------------------------------------------------

\* contents a file can have; Absent when it does not exist
Contents == Absent .. MaxContent

\* contents of the excluded file ("*.log" in DEFAULT_EXCLUSIONS)
IgnoredContents == {Absent, 1}

\* hashes restore() is called with: every commit there can be, and one
\* that names no commit
RestoreHashes == 1 .. MaxCommits + 1

\* results of a restore
RestoreOk == "ok"
ResetFailed == "Failed to restore checkpoint: git reset"
VerificationFailed ==
    "Failed to restore checkpoint: Restore verification failed"

\* the index after addCheckpointFiles: the working file is staged, or
\* nothing is when it reports success: false
addCheckpointFiles(idx, w, success) == IF success THEN w ELSE idx

\* a commit that records changes without the empty-commit option
commitOptions_HooksOff == {"--no-verify"}

\* the options commit() hands to git.commit
commitOptions == {"--allow-empty", "--no-verify"}

\* git commit makes a commit when something is staged or empty commits
\* are allowed
gitCommitCreates(idx, parentSnap) ==
    idx # parentSnap \/ "--allow-empty" \in commitOptions

\* a resolution that falls back to the first commit
resetTarget_FirstCommit(h, cs) == IF h \in 1 .. Len(cs) THEN h ELSE 1

\* the commit git resolves a hash to; NoHash when it names none
resetTarget(h, cs) == IF h \in 1 .. Len(cs) THEN h ELSE NoHash

\* git reset --hard on the working file: a file neither staged nor in the
\* target commit is untracked and stays as it is
resetHard(w, idx, snap) ==
    IF snap = Absent /\ idx = Absent THEN w ELSE snap

\* a verification that accepts any HEAD
headMatches_Always(currentCommit, commitHash) == TRUE

\* currentCommit.startsWith(cleanCommitHash(commitHash)) on full hashes
headMatches(currentCommit, commitHash) == currentCommit = commitHash

\* a list that keeps the newest checkpoint only
addCheckpoint_Replace(cps, gitCommit) == <<gitCommit>>

\* Task.addCheckpoint
addCheckpoint(cps, gitCommit) == Append(cps, gitCommit)

\* a restore that is recorded on the task as one more checkpoint
checkpointsAfterRestore_Recorded(cps, commitHash) == Append(cps, commitHash)

\* restore(commitHash) resets and verifies; Task.checkpoints is not
\* touched by it
checkpointsAfterRestore(cps, commitHash) == cps

\* a tool call that returns without waiting for its checkpoint
pcAfterToolResult_NoAwait(pc) == "idle"

\* executeToolUse after pushToolResult: it awaits saveCheckpoint
pcAfterToolResult(pc) == IF pc = "running" THEN "checkpoint" ELSE pc

\* the commit has the tree of its parent
isEmptyCommit(h) ==
    /\ commits[h].parent # NoHash
    /\ commits[h].snap = commits[commits[h].parent].snap

InitCkpt ==
    /\ N = 1
    /\ range = NoRange
    /\ api = [size |-> 128000, buffer |-> 30000]
    /\ didAutomaticallyRetryFailedApiRequest = FALSE
    /\ omitted = {}
    /\ fileReads = {}
    /\ contextHistoryUpdates = NoUpdates
    /\ now = 0
    /\ last = NoStep
    /\ \E w \in {Absent, 1} : TrackerCreated(w)
    /\ SideIdle

\* executeToolUse: the parameters are valid and the tool is approved
StartTool ==
    /\ toolpc = "idle"
    /\ Len(commits) < MaxCommits
    /\ toolpc' = "running"
    /\ restored' = NotRestored
    /\ last' = Step("tool", 0, "approved", <<>>)
    /\ UNCHANGED <<offCkptVars, treeVars, repoVars, checkpoints,
                   cpc, ret, rpc, rhash, pristine, handling, gitConfig>>

\* executeToolUse: approval is refused, the denial is the tool result
DenyTool ==
    /\ toolpc = "idle"
    /\ last' = Step("tool", 0, "denied", <<>>)
    /\ UNCHANGED <<offCkptVars, ckptVars>>

\* executeToolUse: executeTool returns having written one of the files
\* (or none), the result is pushed and saveCheckpoint calls commit()
FinishTool ==
    /\ toolpc = "running"
    /\ \E w \in Contents, g \in IgnoredContents :
        /\ w = work \/ g = ignored
        /\ work' = w
        /\ ignored' = g
        /\ pristine' = IF w = work /\ g = ignored THEN pristine ELSE NoHash
    /\ toolpc' = pcAfterToolResult(toolpc)
    /\ cpc' = "adding"
    /\ restored' = NotRestored
    /\ last' = Step("tool", 0, "ok", <<>>)
    /\ UNCHANGED <<offCkptVars, index, repoVars, checkpoints,
                   ret, rpc, rhash, handling, gitConfig>>

\* executeToolUse: executeTool throws and handleToolExecutionError takes
\* over: the error is the tool result and saveCheckpoint calls commit()
FailTool ==
    /\ toolpc = "running"
    /\ \E w \in {work, Absent} :
        /\ work' = w
        /\ pristine' = IF w = work THEN pristine ELSE NoHash
    /\ toolpc' = "checkpoint"
    /\ cpc' = "adding"
    /\ handling' = TRUE
    /\ restored' = NotRestored
    /\ last' = Step("tool", 0, "error", <<>>)
    /\ UNCHANGED <<offCkptVars, ignored, index, repoVars,
                   checkpoints, ret, rpc, rhash, gitConfig>>

\* commit(), step 1: addCheckpointFiles; a failure is logged only
CommitAdd ==
    /\ cpc = "adding"
    /\ \E success \in BOOLEAN :
        /\ index' = addCheckpointFiles(index, work, success)
        /\ last' = Step("add", 0, IF success THEN "ok" ELSE "logged", <<>>)
    /\ cpc' = "committing"
    /\ restored' = NotRestored
    /\ UNCHANGED <<offCkptVars, work, ignored, repoVars, checkpoints,
                   toolpc, ret, rpc, rhash, pristine, handling, gitConfig>>

\* commit(), step 2: git.commit; the hash of the new commit is returned,
\* or "" when git made none
CommitGit ==
    /\ cpc = "committing"
    /\ LET parentSnap == commits[head].snap
           h == Len(commits) + 1
       IN  IF gitCommitCreates(index, parentSnap)
           THEN /\ commits' = Append(commits, Commit(index, head))
                /\ head' = h
                /\ ret' = h
                /\ pristine' = h
                /\ last' = Step("commit", 0, "ok", h)
           ELSE /\ ret' = NoHash
                /\ last' = Step("commit", 0, "ok", NoHash)
                /\ UNCHANGED <<repoVars, pristine>>
    /\ cpc' = "returned"
    /\ restored' = NotRestored
    /\ UNCHANGED <<offCkptVars, treeVars, checkpoints, toolpc,
                   rpc, rhash, handling, gitConfig>>

\* commit(): a git call throws and "Failed to create checkpoint" is thrown
\* on.  executeToolUse hands it to handleToolExecutionError, whose own
\* saveCheckpoint calls commit() again; thrown from there, nothing catches
\* it and the task loop ends with it.
CommitThrows ==
    /\ cpc \in {"adding", "committing"}
    /\ IF handling
       THEN /\ cpc' = "idle"
            /\ toolpc' = IF toolpc = "checkpoint" THEN "idle" ELSE toolpc
            /\ handling' = FALSE
            /\ loopPc' = IF loopPc = "blocks" THEN "failed" ELSE loopPc
            /\ last' = Step("commit", 0, "Failed to create checkpoint",
                            "thrown")
       ELSE /\ cpc' = "adding"
            /\ handling' = TRUE
            /\ last' = Step("commit", 0, "Failed to create checkpoint",
                            "handled")
            /\ UNCHANGED <<toolpc, loopPc>>
    /\ restored' = NotRestored
    /\ UNCHANGED <<N, planVars, storeVars, abort, blocksLeft, moreVars,
                   treeVars, repoVars, checkpoints, ret, rpc, rhash,
                   pristine, gitConfig>>

\* saveCheckpoint, after commit() returned: the hash is recorded on the
\* task and executeToolUse returns
RecordCheckpoint ==
    /\ cpc = "returned"
    /\ checkpoints' = IF ret # NoHash THEN addCheckpoint(checkpoints, ret)
                      ELSE checkpoints
    /\ cpc' = "idle"
    /\ ret' = NoHash
    /\ toolpc' = IF toolpc = "checkpoint" THEN "idle" ELSE toolpc
    /\ handling' = FALSE
    /\ restored' = NotRestored
    /\ last' = Step("record", 0, "ok", ret)
    /\ UNCHANGED <<offCkptVars, treeVars, repoVars, rpc, rhash,
                   pristine, gitConfig>>

\* the user asks for restore(commitHash)
RestoreCall ==
    /\ rpc = "idle"
    /\ \E h \in RestoreHashes : rhash' = h
    /\ rpc' = "reset"
    /\ restored' = IF restored.hash = rhash' THEN restored ELSE NotRestored
    /\ last' = Step("restore", 0, "called", rhash')
    /\ UNCHANGED <<offCkptVars, treeVars, repoVars, checkpoints,
                   toolpc, cpc, ret, pristine, handling, gitConfig>>

\* restore(), step 1: git reset --hard; git rejects a hash that names no
\* commit, and can fail on one that does
RestoreReset ==
    /\ rpc = "reset"
    /\ \E gitOk \in BOOLEAN :
        LET target == resetTarget(rhash, commits)
        IN  IF gitOk /\ target # NoHash
            THEN /\ work' = resetHard(work, index, commits[target].snap)
                 /\ index' = commits[target].snap
                 /\ head' = target
                 /\ rpc' = "verify"
                 /\ pristine' = IF work' = work THEN pristine ELSE NoHash
                 /\ restored' = IF restored.hash = rhash THEN restored
                                 ELSE [hash |-> rhash, verified |-> FALSE]
                 /\ last' = Step("reset", 0, "ok", rhash)
                 /\ UNCHANGED <<ignored, commits>>
            ELSE /\ rpc' = "idle"
                 /\ last' = Step("restore", 0, ResetFailed, rhash)
                 /\ UNCHANGED <<treeVars, repoVars, pristine, restored>>
    /\ UNCHANGED <<offCkptVars, checkpoints, toolpc, cpc, ret,
                   rhash, handling, gitConfig>>

\* restore(), step 2: rev-parse HEAD and compare with the requested hash
RestoreVerify ==
    /\ rpc = "verify"
    /\ rpc' = "idle"
    /\ last' = Step("restore", 0,
                    IF headMatches(head, rhash) THEN RestoreOk
                    ELSE VerificationFailed, rhash)
    /\ restored' = IF headMatches(head, rhash) /\ restored.hash = rhash
                   THEN [hash |-> rhash, verified |-> TRUE]
                   ELSE NotRestored
    /\ checkpoints' = IF headMatches(head, rhash)
                      THEN checkpointsAfterRestore(checkpoints, rhash)
                      ELSE checkpoints
    /\ UNCHANGED <<offCkptVars, treeVars, repoVars, toolpc, cpc, ret,
                   rhash, pristine, handling, gitConfig>>

NextCkpt ==
    \/ StartTool
    \/ DenyTool
    \/ FinishTool
    \/ FailTool
    \/ CommitAdd
    \/ CommitGit
    \/ CommitThrows
    \/ RecordCheckpoint
    \/ RestoreCall
    \/ RestoreReset
    \/ RestoreVerify

SpecCkpt == InitCkpt /\ [][NextCkpt]_vars

\* CheckpointTracker.create is called again for the same working directory
\* and task: initShadowGit runs git init in the existing repository, sets
\* the four settings, and createInitialCommit stages the working tree and
\* commits with --allow-empty.  A git call that throws ends create().
CreateTracker ==
    /\ Len(commits) < MaxCommits
    /\ \E gitOk \in BOOLEAN, success \in BOOLEAN :
        LET staged == addCheckpointFiles(index, work, success)
            h == Len(commits) + 1
        IN  IF gitOk
            THEN /\ gitConfig' = BotConfig
                 /\ index' = staged
                 /\ IF gitCommitCreates(staged, commits[head].snap)
                    THEN /\ commits' = Append(commits, Commit(staged, head))
                         /\ head' = h
                    ELSE UNCHANGED repoVars
                 /\ last' = Step("create", 0, "ok", head')
            ELSE /\ last' = Step("create", 0, "thrown", head)
                 /\ UNCHANGED <<index, repoVars, gitConfig>>
    /\ restored' = NotRestored
    /\ UNCHANGED <<offCkptVars, work, ignored, checkpoints, toolpc, cpc, ret,
                   rpc, rhash, pristine, handling>>

NextCreate ==
    \/ CreateTracker
    \/ StartTool
    \/ FinishTool
    \/ FailTool
    \/ CommitAdd
    \/ CommitGit
    \/ CommitThrows
    \/ RecordCheckpoint

SpecCreate == InitCkpt /\ [][NextCreate]_vars

\* ------------------------------------------------------------------------
\* commit() and restore() as whole calls, with the files changed between
\* them
\* ------------------------------------------------------------------------

\* executeTool writes, deletes or creates files of the working directory
ToolEditsFiles ==
    /\ \E w \in Contents, g \in IgnoredContents :
        /\ <<w, g>> # <<work, ignored>>
        /\ work' = w
        /\ ignored' = g
    /\ last' = Step("tool", 0, "ok", <<>>)
    /\ UNCHANGED <<offTreeVars, index, repoVars, checkpoints, toolpc, cpc,
                   ret, rpc, rhash, pristine, trackVars, atCommit>>

\* commit(): addCheckpointFiles, whose failure is logged only, then
\* git.commit; the hash of the new commit is returned, or a git call throws
CommitCheckpoint ==
    /\ Len(commits) <= MaxCheckpoints
    /\ \E success \in BOOLEAN, gitOk \in BOOLEAN :
        LET staged == addCheckpointFiles(index, work, success)
            h == Len(commits) + 1
        IN  /\ index' = staged
            /\ IF gitOk /\ gitCommitCreates(staged, commits[head].snap)
               THEN /\ commits' = Append(commits, Commit(staged, head))
                    /\ head' = h
                    /\ ret' = h
                    /\ atCommit' = work
                    /\ last' = Step("commit", 0, "ok", h)
               ELSE /\ last' = Step("commit", 0,
                                    "Failed to create checkpoint", "thrown")
                    /\ UNCHANGED <<repoVars, ret, atCommit>>
    /\ UNCHANGED <<offTreeVars, work, ignored, checkpoints, toolpc, cpc,
                   rpc, rhash, pristine, trackVars>>

\* restore(commitHash): git reset --hard, then rev-parse HEAD is compared
\* with the requested hash
RestoreCheckpoint ==
    /\ \E h \in RestoreHashes, gitOk \in BOOLEAN :
        LET target == resetTarget(h, commits)
        IN  /\ rhash' = h
            /\ IF gitOk /\ target # NoHash
               THEN /\ work' = resetHard(work, index, commits[target].snap)
                    /\ index' = commits[target].snap
                    /\ head' = target
                    /\ last' = Step("restore", 0,
                                    IF headMatches(target, h) THEN RestoreOk
                                    ELSE VerificationFailed, h)
               ELSE /\ last' = Step("restore", 0, ResetFailed, h)
                    /\ UNCHANGED <<work, index, head>>
    /\ UNCHANGED <<offTreeVars, ignored, commits, checkpoints, toolpc, cpc,
                   ret, rpc, pristine, trackVars, atCommit>>

NextRestore ==
    \/ ToolEditsFiles
    \/ CommitCheckpoint
    \/ RestoreCheckpoint

SpecRestore == InitCkpt /\ [][NextRestore]_vars

\* ------------------------------------------------------------------------
\* The task loop and its abort flag: Task.initiateTaskLoop,
\* recursivelyMakeClineRequests and presentAssistantMessage, with the tool
\* and checkpoint steps above
\* ------------------------------------------------------------------------

InitLoop ==
    /\ N = 1
    /\ range = NoRange
    /\ api = [size |-> 128000, buffer |-> 30000]
    /\ didAutomaticallyRetryFailedApiRequest = FALSE
    /\ omitted = {}
    /\ fileReads = {}
    /\ contextHistoryUpdates = NoUpdates
    /\ now = 0
    /\ last = NoStep
    /\ TrackerCreated(1)
    /\ SideIdle

\* the abort flag is set (the user cancels, or declines to continue in
\* handleConsecutiveErrors)
AbortTask ==
    /\ ~abort
    /\ abort' = TRUE
    /\ last' = Step("abort", 0, "ok", <<>>)
    /\ UNCHANGED <<N, planVars, storeVars, ckptVars, loopPc, blocksLeft,
                   moreVars>>

\* initiateTaskLoop's `while (!abort)` and recursivelyMakeClineRequests:
\* the flag is tested, then the request is made and the assistant message
\* arrives with its tool_use blocks
RecursivelyMakeClineRequests ==
    /\ loopPc = "head"
    /\ IF abort
       THEN /\ loopPc' = "stopped"
            /\ last' = Step("request", 0, "Cline instance aborted", <<>>)
            /\ UNCHANGED blocksLeft
       ELSE /\ loopPc' = "blocks"
            /\ \E n \in 0 .. MaxBlocks : blocksLeft' = n
            /\ last' = Step("request", 0, "ok", <<>>)
    /\ UNCHANGED <<N, planVars, storeVars, ckptVars, abort, moreVars>>

\* presentAssistantMessage: the next tool_use block goes to executeToolUse
PresentToolUseBlock ==
    /\ loopPc = "blocks"
    /\ blocksLeft > 0
    /\ toolpc = "idle"
    /\ Len(commits) < MaxCommits
    /\ blocksLeft' = blocksLeft - 1
    /\ toolpc' = "running"
    /\ last' = Step("tool", 0, "approved", <<>>)
    /\ UNCHANGED <<N, planVars, storeVars, treeVars, repoVars, checkpoints,
                   cpc, ret, rpc, rhash, pristine, trackVars, abort, loopPc,
                   moreVars>>

\* every block of the message is presented: the loop goes round or ends
EndOfMessage ==
    /\ loopPc = "blocks"
    /\ toolpc = "idle"
    /\ blocksLeft = 0 \/ Len(commits) >= MaxCommits
    /\ \E didEndLoop \in BOOLEAN :
        loopPc' = IF didEndLoop THEN "stopped" ELSE "head"
    /\ blocksLeft' = 0
    /\ last' = Step("message", 0, "ok", <<>>)
    /\ UNCHANGED <<N, planVars, storeVars, ckptVars, abort, moreVars>>

NextLoop ==
    \/ AbortTask
    \/ RecursivelyMakeClineRequests
    \/ PresentToolUseBlock
    \/ FinishTool
    \/ FailTool
    \/ CommitAdd
    \/ CommitGit
    \/ CommitThrows
    \/ RecordCheckpoint
    \/ EndOfMessage

SpecLoop == InitLoop /\ [][NextLoop]_vars

\* ------------------------------------------------------------------------
\* Batched persistence of the messages: MessageStateHandler and
\* saveClineMessages, with the overlay's pruning beside them
\* ------------------------------------------------------------------------

\* how an awaited file-system call can end: done, rejected before anything
\* was written, rejected after part of the new content was written
SaveOutcomes == {"ok", "failed", "torn"}

\* a flush that empties the queue whatever became of the save
pendingAfterFlush_AlwaysCleared(pending, outcome) == {}

\* flushPendingUpdates: `this.pendingUpdates = []` follows the awaited save
\* inside the try block, so a rejected save leaves the queue as it is
pendingAfterFlush(pending, outcome) ==
    IF outcome \in {"ok", "mixed"} THEN {} ELSE pending

\* fs.writeFile(messagesPath, ...) writes into the file itself: a write
\* that stops half way, or overlaps another one, leaves a file that is
\* neither the old content nor the new
fileAfterWrite(file, snapshot, outcome) ==
    CASE outcome = "ok"     -> File(snapshot, FALSE)
      [] outcome = "failed" -> file
      [] OTHER              -> File(0, TRUE)

\* what console.error / the resolved promise report for an outcome
flushStatus(outcome) ==
    IF outcome \in {"ok", "mixed"} THEN "saved" ELSE "logged"

\* message i can be read back from the file
Persisted(i) == ~disk.torn /\ i <= disk.written

\* some flushPendingUpdates call has started and not returned
FlushInProgress == \E i \in 1 .. MaxFlushes : flushes[i].pc # "idle"

\* an overlay of a long-running task: two blocks were last updated more
\* than a day ago, one of them and a third block within the last day
AgedOverlay ==
    LET old == [timestamp |-> 0, updateType |-> "replace",
                update |-> [kind |-> "v1", path |-> ""]]
        new == [timestamp |-> DayMs + DayMs \div 2, updateType |-> "note",
                update |-> [kind |-> "v2", path |-> ""]]
    IN  addContextUpdate(addContextUpdate(addContextUpdate(
            addContextUpdate(NoUpdates, 3, 0, old), 5, 0, old),
            5, 0, new), 7, 1, new)

InitFlush ==
    /\ N = StoreMessages
    /\ range = NoRange
    /\ api = [size |-> 128000, buffer |-> 30000]
    /\ didAutomaticallyRetryFailedApiRequest = FALSE
    /\ omitted = {}
    /\ fileReads = {}
    /\ contextHistoryUpdates = AgedOverlay
    /\ now = 2 * DayMs
    /\ last = NoStep
    /\ TrackerCreated(1)
    /\ SideIdle

\* MessageStateHandler.addToClineMessages, with scheduleBatchSave: the
\* message is pushed on both lists and the timer is cleared and set again
AddToClineMessages ==
    /\ clineMessages < MaxSaved
    /\ clineMessages' = clineMessages + 1
    /\ pendingUpdates' = pendingUpdates \cup {clineMessages + 1}
    /\ saveTimer' = TRUE
    /\ last' = Step("addMessage", 0, "ok", clineMessages + 1)
    /\ UNCHANGED <<N, planVars, storeVars, ckptVars, loopVars, flushes,
                   disk, lastGood, exclVars, accessed, appVars>>

\* the timer fires and flushPendingUpdates starts: it returns at once when
\* nothing is pending, else it calls saveClineMessages, which first awaits
\* ensureTaskDirectoryExists
SaveTimerFires ==
    /\ saveTimer
    /\ saveTimer' = FALSE
    /\ IF pendingUpdates = {}
       THEN /\ last' = Step("flush", 0, "nothing pending", <<>>)
            /\ UNCHANGED flushes
       ELSE \E i \in 1 .. MaxFlushes :
            /\ flushes[i].pc = "idle"
            /\ \A j \in 1 .. i - 1 : flushes[j].pc # "idle"
            /\ flushes' = [flushes EXCEPT ![i] = Flush("ensureDir", 0)]
            /\ last' = Step("flush", 0, "started", i)
    /\ UNCHANGED <<N, planVars, storeVars, ckptVars, loopVars,
                   clineMessages, pendingUpdates, disk, lastGood,
                   exclVars, accessed, appVars>>

\* saveClineMessages after ensureTaskDirectoryExists settles: the messages
\* held now are compressed and serialized and fs.writeFile is called; a
\* rejected mkdir ends the flush in its catch block
FlushSerialize(i, outcome) ==
    /\ flushes[i].pc = "ensureDir"
    /\ outcome \in {"ok", "failed"}
    /\ IF outcome = "ok"
       THEN /\ flushes' = [flushes EXCEPT
                              ![i] = Flush("writing", clineMessages)]
            /\ last' = Step("flush", 0, "writing", i)
            /\ UNCHANGED pendingUpdates
       ELSE /\ flushes' = [flushes EXCEPT ![i] = Flush("idle", 0)]
            /\ pendingUpdates' = pendingAfterFlush(pendingUpdates, outcome)
            /\ last' = Step("flush", 0, flushStatus(outcome), i)
    /\ UNCHANGED <<N, planVars, storeVars, ckptVars, loopVars,
                   clineMessages, saveTimer, disk, lastGood,
                   exclVars, accessed, appVars>>

\* another flush is writing the same file
overlapsWrite(i) ==
    \E j \in 1 .. MaxFlushes : j # i /\ flushes[j].pc = "writing"

\* fs.writeFile settles and flushPendingUpdates returns: the queue is
\* emptied after a fulfilled write, the error is logged after a rejected
\* one.  Two writes to one file that overlap may leave a mixture though
\* both are fulfilled.
FlushWrite(i, outcome) ==
    /\ flushes[i].pc = "writing"
    /\ outcome \in SaveOutcomes \/ (outcome = "mixed" /\ overlapsWrite(i))
    /\ disk' = fileAfterWrite(disk, flushes[i].snapshot, outcome)
    /\ lastGood' = IF outcome = "ok" THEN disk' ELSE lastGood
    /\ pendingUpdates' = pendingAfterFlush(pendingUpdates, outcome)
    /\ flushes' = [flushes EXCEPT ![i] = Flush("idle", 0)]
    /\ last' = Step("flush", 0, flushStatus(outcome), i)
    /\ UNCHANGED <<N, planVars, storeVars, ckptVars, loopVars,
                   clineMessages, saveTimer, exclVars, accessed,
                   appVars>>

NextFlush ==
    \/ AddToClineMessages
    \/ SaveTimerFires
    \/ \E i \in 1 .. MaxFlushes : FlushSerialize(i, "ok")
    \/ \E i \in 1 .. MaxFlushes : FlushSerialize(i, "failed")
    \/ \E i \in 1 .. MaxFlushes : FlushWrite(i, "ok")
    \/ \E i \in 1 .. MaxFlushes : FlushWrite(i, "failed")
    \/ \E i \in 1 .. MaxFlushes : FlushWrite(i, "torn")
    \/ \E i \in 1 .. MaxFlushes : FlushWrite(i, "mixed")
    \/ PruneOldContextUpdates

SpecFlush == InitFlush /\ [][NextFlush]_vars

\* timers fire and awaited calls settle; a file system that can be written
\* is not refused for ever
FairFlush ==
    /\ WF_vars(SaveTimerFires)
    /\ \A i \in 1 .. MaxFlushes :
        /\ WF_vars(FlushSerialize(i, "ok") \/ FlushSerialize(i, "failed"))
        /\ SF_vars(FlushSerialize(i, "ok"))
        /\ WF_vars(\E o \in SaveOutcomes \cup {"mixed"} : FlushWrite(i, o))
        /\ SF_vars(FlushWrite(i, "ok"))

SpecFlushFair == SpecFlush /\ FairFlush

\* ------------------------------------------------------------------------
\* Exclusion patterns of the checkpoints:
\* CheckpointExclusions.getExclusionPatterns
\* ------------------------------------------------------------------------

\* a line of an ignore file: the character that marks it ("#" for a
\* comment, "!" for a negation, "" for none) and the rest of it
Line(marker, text) == [marker |-> marker, text |-> text]

DEFAULT_EXCLUSIONS ==
    << Line("", "node_modules/**"), Line("", ".git/**"), Line("", "*.log"),
       Line("", "tmp/**"), Line("", ".DS_Store"), Line("", "Thumbs.db") >>

\* the lines the ignore files are made of
SampleLines ==
    { Line("", "dist/"), Line("#", " build output"),
      Line("!", "dist/keep.js"), Line("", "") }

\* the sequences over S of length n at most
BoundedSeq(S, n) == UNION { [1 .. k -> S] : k \in 0 .. n }

IgnoreFiles ==
    {NoFile} \cup
    { IgnoreFile(TRUE, ls) : ls \in BoundedSeq(SampleLines, MaxLines) }

\* parseGitignore(content): the lines in file order, without the blank
\* lines and the comments
parseGitignore(content) ==
    SelectSeq(content, LAMBDA l : l.marker # "#" /\ l # Line("", ""))

\* `if (await fileExistsAtPath(p)) patterns.push(...parseGitignore(...))`
patternsOf(file) ==
    IF file.exists THEN parseGitignore(file.lines) ELSE <<>>

\* a list that puts the agent's ignore file before the project's
getExclusionPatterns_AgentFirst(git, cline) ==
    DEFAULT_EXCLUSIONS \o patternsOf(cline) \o patternsOf(git)

\* getExclusionPatterns(workingDir), for the two files of workingDir
getExclusionPatterns(git, cline) ==
    DEFAULT_EXCLUSIONS \o patternsOf(git) \o patternsOf(cline)

InitExcl ==
    /\ N = 1
    /\ range = NoRange
    /\ api = [size |-> 128000, buffer |-> 30000]
    /\ didAutomaticallyRetryFailedApiRequest = FALSE
    /\ omitted = {}
    /\ fileReads = {}
    /\ contextHistoryUpdates = NoUpdates
    /\ now = 0
    /\ last = NoStep
    /\ TrackerCreated(1)
    /\ LoopIdle
    /\ HandlerCreated
    /\ accessed = {}
    /\ AppIdle
    /\ gitignore \in IgnoreFiles
    /\ clineignore \in IgnoreFiles
    /\ patterns = <<>>
    /\ patternsFor = {}

\* CheckpointExclusions.getExclusionPatterns is called
GetExclusionPatterns ==
    /\ patterns' = getExclusionPatterns(gitignore, clineignore)
    /\ patternsFor' = {<<gitignore, clineignore>>}
    /\ last' = Step("getExclusionPatterns", 0,
                    IF patternsFor = {<<gitignore, clineignore>>}
                    THEN "unchanged" ELSE "computed", <<>>)
    /\ UNCHANGED <<N, planVars, storeVars, ckptVars, loopVars, flushVars,
                   gitignore, clineignore, accessed, appVars>>

\* the user adds a line to one of the ignore files, creating it if need be
AppendIgnoreLine ==
    /\ \E l \in SampleLines, which \in {".gitignore", ".clineignore"} :
        LET file == IF which = ".gitignore" THEN gitignore ELSE clineignore
            new == IgnoreFile(TRUE, Append(file.lines, l))
        IN  /\ Len(file.lines) < MaxLines
            /\ gitignore' = IF which = ".gitignore" THEN new ELSE gitignore
            /\ clineignore' =
                   IF which = ".clineignore" THEN new ELSE clineignore
            /\ last' = Step("appendIgnoreLine", 0, "ok", which)
    /\ UNCHANGED <<N, planVars, storeVars, ckptVars, loopVars, flushVars,
                   patterns, patternsFor, accessed, appVars>>

NextExcl ==
    \/ GetExclusionPatterns
    \/ AppendIgnoreLine

SpecExcl == InitExcl /\ [][NextExcl]_vars

\* ------------------------------------------------------------------------
\* File access of the web application: FileManager
\* ------------------------------------------------------------------------

\* path segments, each the sequence of its characters: "r", "rx", "s", ".."
SegR == <<"r">>
SegRx == <<"r", "x">>
SegS == <<"s">>
DotDot == <<".", ".">>

Segments == {SegR, SegRx, SegS, DotDot}

\* a path string: whether it starts with "/", and its segments
Path(isAbsolute, segs) == [isAbsolute |-> isAbsolute, segs |-> segs]

\* the repository paths: "/r" and "/s/r"
RepositoryPaths == { <<SegR>>, <<SegS, SegR>> }

\* the filePath arguments
FilePaths ==
    { Path(a, segs) : a \in BOOLEAN,
                      segs \in BoundedSeq(Segments, MaxSegments) }

\* path.normalize of an absolute path: ".." removes the segment before it,
\* and stays at the root
normalize(segs) ==
    LET RECURSIVE Walk(_, _)
        Walk(done, rest) ==
            IF rest = <<>> THEN done
            ELSE IF Head(rest) = DotDot
                 THEN Walk(IF done = <<>> THEN done
                           ELSE SubSeq(done, 1, Len(done) - 1), Tail(rest))
                 ELSE Walk(Append(done, Head(rest)), Tail(rest))
    IN  Walk(<<>>, segs)

\* the characters of an absolute path: "/" alone for the root, else "/"
\* before every segment
render(segs) ==
    LET RECURSIVE Chars(_)
        Chars(rest) == IF rest = <<>> THEN <<>>
                       ELSE <<"/">> \o Head(rest) \o Chars(Tail(rest))
    IN  IF segs = <<>> THEN <<"/">> ELSE Chars(segs)

\* String.prototype.startsWith
startsWith(str, prefix) ==
    /\ Len(prefix) <= Len(str)
    /\ SubSeq(str, 1, Len(prefix)) = prefix

\* FileManager.getFullPath: an absolute filePath is taken as it is, a
\* relative one is joined to the repository path (path.join normalizes)
getFullPath(repositoryPath, filePath) ==
    IF filePath.isAbsolute THEN filePath.segs
    ELSE normalize(repositoryPath \o filePath.segs)

\* FileManager.validatePath does not throw: the resolved target, as a
\* string, starts with the resolved repository path
pathAllowed(repositoryPath, targetPath) ==
    startsWith(render(normalize(targetPath)),
               render(normalize(repositoryPath)))

AccessDenied == "Access denied: path outside repository bounds"

\* the file the operating system reaches under a path lies in the
\* directory, or is the directory
inside(directory, target) ==
    /\ Len(directory) <= Len(target)
    /\ SubSeq(target, 1, Len(directory)) = directory

InitFiles ==
    /\ N = 1
    /\ range = NoRange
    /\ api = [size |-> 128000, buffer |-> 30000]
    /\ didAutomaticallyRetryFailedApiRequest = FALSE
    /\ omitted = {}
    /\ fileReads = {}
    /\ contextHistoryUpdates = NoUpdates
    /\ now = 0
    /\ last = NoStep
    /\ TrackerCreated(1)
    /\ SideIdle

\* the first two statements of every operation of FileManager: the path
\* the file system is called with, when validatePath does not throw
fileSystemCalls(repositoryPath, filePath) ==
    LET fullPath == getFullPath(repositoryPath, filePath)
    IN  IF pathAllowed(repositoryPath, fullPath)
        THEN {[repo |-> repositoryPath, path |-> normalize(fullPath)]}
        ELSE {}

\* what the operation reports
fileOperationStatus(repositoryPath, filePath) ==
    IF pathAllowed(repositoryPath, getFullPath(repositoryPath, filePath))
    THEN "ok" ELSE AccessDenied

\* what FileManager leaves alone
offFileVars == <<N, planVars, storeVars, ckptVars, loopVars, flushVars,
                 exclVars, appVars>>

\* FileManager.readFile: fs.readFile on the full path
ReadFile ==
    \E repositoryPath \in RepositoryPaths, filePath \in FilePaths :
        /\ accessed' = fileSystemCalls(repositoryPath, filePath)
        /\ last' = Step("readFile", 0,
                        fileOperationStatus(repositoryPath, filePath),
                        <<repositoryPath, filePath>>)
        /\ UNCHANGED offFileVars

\* FileManager.writeFile: fs.readFile and fs.writeFile on the full path
WriteFile ==
    \E repositoryPath \in RepositoryPaths, filePath \in FilePaths :
        /\ accessed' = fileSystemCalls(repositoryPath, filePath)
        /\ last' = Step("writeFile", 0,
                        fileOperationStatus(repositoryPath, filePath),
                        <<repositoryPath, filePath>>)
        /\ UNCHANGED offFileVars

\* FileManager.deleteFile: fs.stat and fs.unlink on the full path
DeleteFile ==
    \E repositoryPath \in RepositoryPaths, filePath \in FilePaths :
        /\ accessed' = fileSystemCalls(repositoryPath, filePath)
        /\ last' = Step("deleteFile", 0,
                        fileOperationStatus(repositoryPath, filePath),
                        <<repositoryPath, filePath>>)
        /\ UNCHANGED offFileVars

\* FileManager.listFiles: fs.readdir on the full path
ListFiles ==
    \E repositoryPath \in RepositoryPaths, filePath \in FilePaths :
        /\ accessed' = fileSystemCalls(repositoryPath, filePath)
        /\ last' = Step("listFiles", 0,
                        fileOperationStatus(repositoryPath, filePath),
                        <<repositoryPath, filePath>>)
        /\ UNCHANGED offFileVars

\* FileManager.fileExists: fs.access on the full path
FileExists ==
    \E repositoryPath \in RepositoryPaths, filePath \in FilePaths :
        /\ accessed' = fileSystemCalls(repositoryPath, filePath)
        /\ last' = Step("fileExists", 0,
                        fileOperationStatus(repositoryPath, filePath),
                        <<repositoryPath, filePath>>)
        /\ UNCHANGED offFileVars

\* FileManager.getFileStats: fs.stat on the full path
GetFileStats ==
    \E repositoryPath \in RepositoryPaths, filePath \in FilePaths :
        /\ accessed' = fileSystemCalls(repositoryPath, filePath)
        /\ last' = Step("getFileStats", 0,
                        fileOperationStatus(repositoryPath, filePath),
                        <<repositoryPath, filePath>>)
        /\ UNCHANGED offFileVars

NextFiles ==
    \/ ReadFile
    \/ WriteFile
    \/ DeleteFile
    \/ ListFiles
    \/ FileExists
    \/ GetFileStats

SpecFiles == InitFiles /\ [][NextFiles]_vars

\* ------------------------------------------------------------------------
\* The web application's task: ClineWebTask and the Task entity
\* ------------------------------------------------------------------------

\* the extension's side at rest
QuietInit ==
    /\ N = 1
    /\ range = NoRange
    /\ api = [size |-> 128000, buffer |-> 30000]
    /\ didAutomaticallyRetryFailedApiRequest = FALSE
    /\ omitted = {}
    /\ fileReads = {}
    /\ contextHistoryUpdates = NoUpdates
    /\ now = 0
    /\ last = NoStep
    /\ TrackerCreated(1)
    /\ LoopIdle
    /\ HandlerCreated
    /\ NoExclusions
    /\ accessed = {}

\* an entry of conversationHistory: its role, and the API response it
\* holds or answers (0 for what the user typed)
Entry(role, response) == [role |-> role, response |-> response]

\* the blocks parseAssistantMessage returns: text, text that includes
\* "task completed", tool_use
WebBlocks == {"text", "completion", "tool_use"}

\* shouldContinueExecution
shouldContinueExecution(content) ==
    /\ \E i \in DOMAIN content : content[i] = "tool_use"
    /\ ~\E i \in DOMAIN content : content[i] = "completion"

InitWeb ==
    /\ QuietInit
    /\ AppWith("webTask")

\* ClineWebTask.initialize: task.start(), then initiateTaskLoop sets
\* isRunning
Initialize ==
    /\ webTask.webPc = "created"
    /\ webTask' = [webTask EXCEPT !.taskStatus = "running",
                                  !.isRunning = TRUE,
                                  !.webPc = "head"]
    /\ last' = Step("initialize", 0, "ok", <<>>)
    /\ UNCHANGED offWebVars

\* what follows the while loop: complete() unless aborted, and the
\* finally block
statusAfterLoop(st, aborted) == IF aborted THEN st ELSE "completed"

\* initiateTaskLoop's while condition; the system prompt is built and the
\* request is sent, or the loop is left
LoopTest ==
    /\ webTask.webPc = "head"
    /\ IF ~webTask.shouldAbort /\ webTask.isRunning
       THEN /\ webTask' = [webTask EXCEPT !.webPc = "request",
                                          !.requests = @ + 1]
            /\ last' = Step("loop", 0, "request", webTask.requests + 1)
       ELSE /\ webTask' = [webTask EXCEPT
                   !.taskStatus = statusAfterLoop(@, webTask.shouldAbort),
                   !.isRunning = FALSE,
                   !.webPc = "ended"]
            /\ last' = Step("loop", 0, "left", webTask.requests)
    /\ UNCHANGED offWebVars

\* makeApiRequest after createMessage resolved: the user content is pushed
\* on the history; processApiResponse parses the blocks
ApiResponds ==
    /\ webTask.webPc = "request"
    /\ \E content \in BoundedSeq(WebBlocks, MaxWebBlocks) :
        webTask' = [webTask EXCEPT
            !.assistantMessageContent = content,
            !.conversationHistory = Append(@, Entry("user", 0)),
            !.blockIndex = 1,
            !.webPc = "blocks"]
    /\ last' = Step("api", 0, "ok", webTask.requests)
    /\ UNCHANGED offWebVars

\* createMessage rejects: initiateTaskLoop's catch calls task.fail, its
\* finally block clears isRunning
ApiFails ==
    /\ webTask.webPc = "request"
    /\ webTask' = [webTask EXCEPT !.taskStatus = "failed",
                                  !.isRunning = FALSE,
                                  !.webPc = "ended"]
    /\ last' = Step("api", 0, "error", webTask.requests)
    /\ UNCHANGED offWebVars

\* processApiResponse: a text block goes to the client
HandleTextBlock ==
    /\ webTask.webPc = "blocks"
    /\ webTask.blockIndex <= Len(webTask.assistantMessageContent)
    /\ webTask.assistantMessageContent[webTask.blockIndex] # "tool_use"
    /\ webTask' = [webTask EXCEPT !.blockIndex = @ + 1]
    /\ last' = Step("text", 0, "ok", webTask.blockIndex)
    /\ UNCHANGED offWebVars

\* the history after handleToolUseBlock: the whole assistant message and
\* the tool result are pushed when the tool returned, nothing when it threw
historyAfterTool(history, response, returned) ==
    IF returned
    THEN history \o <<Entry("assistant", response), Entry("user", response)>>
    ELSE history

\* processApiResponse: handleToolUseBlock runs the tool; an error is
\* caught and sent to the client
HandleToolUseBlock ==
    /\ webTask.webPc = "blocks"
    /\ webTask.blockIndex <= Len(webTask.assistantMessageContent)
    /\ webTask.assistantMessageContent[webTask.blockIndex] = "tool_use"
    /\ \E returned \in BOOLEAN :
        /\ webTask' = [webTask EXCEPT
               !.conversationHistory =
                   historyAfterTool(@, webTask.requests, returned),
               !.blockIndex = @ + 1]
        /\ last' = Step("tool_use", 0,
                        IF returned THEN "ok" ELSE "error",
                        webTask.blockIndex)
    /\ UNCHANGED offWebVars

\* processApiResponse returns shouldContinueExecution(): the loop waits
\* for the next input, or breaks and ends
EndOfResponse ==
    /\ webTask.webPc = "blocks"
    /\ webTask.blockIndex > Len(webTask.assistantMessageContent)
    /\ IF shouldContinueExecution(webTask.assistantMessageContent)
       THEN /\ webTask' = [webTask EXCEPT !.webPc = "waiting"]
            /\ last' = Step("response", 0, "continue", webTask.requests)
       ELSE /\ webTask' = [webTask EXCEPT
                   !.taskStatus = statusAfterLoop(@, webTask.shouldAbort),
                   !.isRunning = FALSE,
                   !.webPc = "ended"]
            /\ last' = Step("response", 0, "left", webTask.requests)
    /\ UNCHANGED offWebVars

\* processUserMessage emits user_input: the listener waitForNextInput
\* registered resolves it and the loop goes round; with no listener the
\* event is lost
ProcessUserMessage ==
    /\ webTask.requests < MaxRequests
    /\ webTask' = [webTask EXCEPT
           !.webPc = IF @ = "waiting" THEN "head" ELSE @]
    /\ last' = Step("user_input", 0,
                    IF webTask.webPc = "waiting" THEN "ok" ELSE "lost",
                    webTask.requests)
    /\ UNCHANGED offWebVars

\* ClineWebTask.abort
AbortWebTask ==
    /\ webTask' = [webTask EXCEPT !.shouldAbort = TRUE,
                                  !.taskStatus = "cancelled"]
    /\ last' = Step("abort", 0, "ok", webTask.webPc)
    /\ UNCHANGED offWebVars

LoopStep ==
    \/ LoopTest
    \/ ApiResponds
    \/ ApiFails
    \/ HandleTextBlock
    \/ HandleToolUseBlock
    \/ EndOfResponse

NextWeb ==
    \/ Initialize
    \/ LoopTest
    \/ ApiResponds
    \/ ApiFails
    \/ HandleTextBlock
    \/ HandleToolUseBlock
    \/ EndOfResponse
    \/ ProcessUserMessage
    \/ AbortWebTask

SpecWeb == InitWeb /\ [][NextWeb]_vars

\* awaited calls settle and the loop's own statements run; nothing obliges
\* the user to type
SpecWebFair == SpecWeb /\ WF_vars(LoopStep)

\* ------------------------------------------------------------------------
\* The rate limiter of the server: createRateLimiter without the skip
\* options, over MemoryRateLimitStore
\* ------------------------------------------------------------------------

\* keyGenerator(req): the addresses requests come from
RateKeys == {"ip1", "ip2"}

\* an entry of the store
RateEntry(count, resetTime) == [count |-> count, resetTime |-> resetTime]

\* a request the middleware has handled
Handled(k, at, count, outcome) ==
    [key |-> k, at |-> at, count |-> count, outcome |-> outcome]

\* MemoryRateLimitStore.increment: the entry of the key after it
increment(st, k, t) ==
    IF k \notin DOMAIN st \/ t > st[k].resetTime
    THEN RateEntry(1, t + windowMs)
    ELSE RateEntry(st[k].count + 1, st[k].resetTime)

\* a limit that is reached by the last request it allows
limitReached_Inclusive(count) == count >= maxRequests

\* entry.count > maxRequests
limitReached(count) == count > maxRequests

\* the store with the entry of key k set
setEntry(st, k, entry) ==
    [j \in DOMAIN st \cup {k} |-> IF j = k THEN entry ELSE st[j]]

InitRate ==
    /\ QuietInit
    /\ AppWith("rateLimiter")

\* time passes
ClockTicks ==
    /\ rateLimiter.dateNow < MaxClock
    /\ rateLimiter' = [rateLimiter EXCEPT !.dateNow = @ + 1]
    /\ UNCHANGED <<offRateVars, last>>

\* the middleware handles a request: the entry of its key is incremented,
\* then RateLimitError is thrown or next() is called
RateLimit ==
    /\ Len(rateLimiter.handled) < MaxArrivals
    /\ \E k \in RateKeys :
        LET dateNow == rateLimiter.dateNow
            entry == increment(rateLimiter.store, k, dateNow)
            outcome == IF limitReached(entry.count) THEN "RateLimitError"
                       ELSE "next"
        IN  /\ rateLimiter' = [rateLimiter EXCEPT
                   !.store = setEntry(@, k, entry),
                   !.handled = Append(@,
                       Handled(k, dateNow, entry.count, outcome))]
            /\ last' = Step("rateLimit", 0, outcome, k)
    /\ UNCHANGED offRateVars

\* MemoryRateLimitStore.cleanup, run by the interval: the entries whose
\* resetTime has passed are deleted
CleanupStore ==
    LET store == rateLimiter.store
        dateNow == rateLimiter.dateNow
    IN  /\ \E k \in DOMAIN store : store[k].resetTime < dateNow
        /\ rateLimiter' = [rateLimiter EXCEPT !.store =
               [k \in { j \in DOMAIN store :
                           ~(store[j].resetTime < dateNow) } |-> store[k]]]
        /\ UNCHANGED <<offRateVars, last>>

NextRate ==
    \/ ClockTicks
    \/ RateLimit
    \/ CleanupStore

SpecRate == InitRate /\ [][NextRate]_vars

\* ------------------------------------------------------------------------
\* The API client of the web application: the response interceptor of the
\* axios instance and its handling of 401
\* ------------------------------------------------------------------------

\* a request sent through the axios instance: what it asks for, the _retry
\* mark of its config, and whether it awaits its response or the refresh
\* made for it
Call(url, retry, pc) == [url |-> url, retry |-> retry, pc |-> pc]

\* the requests without the one sent last
Outer(calls) == SubSeq(calls, 1, Len(calls) - 1)

\* the request sent last with its _retry mark set and waiting as given
Marked(calls, pc) ==
    [calls EXCEPT ![Len(calls)] = Call(calls[Len(calls)].url, TRUE, pc)]

\* the stored auth data after the request sent last was rejected: the
\* catch block of a request that awaited the refresh removes it
authAfterReject(calls, stored) == IF Len(calls) > 1 THEN FALSE ELSE stored

\* where the browser is after the request sent last was rejected
hrefAfterReject(calls, at) == IF Len(calls) > 1 THEN "/login" ELSE at

InitApi ==
    /\ QuietInit
    /\ AppWith("apiClient")

\* the auth store persists a login under "cline-auth"
PersistAuth ==
    /\ apiClient.inFlight = <<>>
    /\ ~apiClient.authData
    /\ apiClient' = [apiClient EXCEPT !.authData = TRUE, !.href = "/"]
    /\ last' = Step("login", 0, "ok", <<>>)
    /\ UNCHANGED offApiVars

\* the application makes a request through the axios instance
CallApi ==
    /\ apiClient.inFlight = <<>>
    /\ apiClient.apiCalls < MaxApiCalls
    /\ apiClient' = [apiClient EXCEPT
           !.inFlight = <<Call("request", FALSE, "sent")>>,
           !.refreshes = 0,
           !.apiCalls = @ + 1]
    /\ last' = Step("request", 0, "sent", <<>>)
    /\ UNCHANGED offApiVars

\* the request sent last is answered with success.  When it was a refresh,
\* the request that awaited it stores the new token and is sent again
ResponseOk ==
    LET inFlight == apiClient.inFlight
    IN  /\ inFlight # <<>>
        /\ inFlight[Len(inFlight)].pc = "sent"
        /\ IF Len(inFlight) = 1
           THEN apiClient' = [apiClient EXCEPT !.inFlight = <<>>]
           ELSE apiClient' = [apiClient EXCEPT
                    !.inFlight = Marked(Outer(inFlight), "sent"),
                    !.authData = TRUE]
        /\ last' = Step("response", 0, "200", Len(inFlight))
        /\ UNCHANGED offApiVars

\* the request sent last is answered with 401: when its config is not
\* marked and a token is stored, it is marked and POST /auth/refresh is sent
\* through the same instance; else the auth data is removed, the browser
\* goes to /login and the error is rejected
ResponseUnauthorized ==
    LET inFlight == apiClient.inFlight
    IN  /\ inFlight # <<>>
        /\ inFlight[Len(inFlight)].pc = "sent"
        /\ IF ~inFlight[Len(inFlight)].retry /\ apiClient.authData
           THEN /\ Len(inFlight) < MaxDepth
                /\ apiClient' = [apiClient EXCEPT
                       !.inFlight =
                           Append(Marked(inFlight, "refreshing"),
                                  Call("/auth/refresh", FALSE, "sent")),
                       !.refreshes = @ + 1]
                /\ last' = Step("response", 0, "401", "refresh")
           ELSE /\ apiClient' = [apiClient EXCEPT !.inFlight = <<>>,
                                                  !.authData = FALSE,
                                                  !.href = "/login"]
                /\ last' = Step("response", 0, "401", "rejected")
        /\ UNCHANGED offApiVars

\* the request sent last gets no response or one of another status: the
\* error is rejected, and the catch block of each request that awaited a
\* refresh removes the auth data and goes to /login
ResponseError ==
    LET inFlight == apiClient.inFlight
    IN  /\ inFlight # <<>>
        /\ inFlight[Len(inFlight)].pc = "sent"
        /\ apiClient' = [apiClient EXCEPT
               !.inFlight = <<>>,
               !.authData = authAfterReject(inFlight, @),
               !.href = hrefAfterReject(inFlight, @)]
        /\ last' = Step("response", 0, "error", Len(inFlight))
        /\ UNCHANGED offApiVars

NextApi ==
    \/ PersistAuth
    \/ CallApi
    \/ ResponseOk
    \/ ResponseUnauthorized
    \/ ResponseError

SpecApi == InitApi /\ [][NextApi]_vars

\* ------------------------------------------------------------------------
\* The terminals of the server: TerminalManager.createTerminal and
\* closeTerminal, which the exit handler of the PTY, the cleanup of
\* inactive sessions and the shutdown call as well
\* ------------------------------------------------------------------------

\* session.pty.kill(): a running process is killed, its exit is yet to be
\* reported
ptyAfterKill(state) == IF state = "running" THEN "killed" ELSE state

InitTerm ==
    /\ QuietInit
    /\ AppWith("terminalManager")

\* createTerminal: the PTY is spawned and the session is registered
CreateTerminal ==
    /\ \E t \in Terminals :
        /\ terminalManager.ptyState[t] = "none"
        /\ terminalManager' = [terminalManager EXCEPT
               !.ptyState[t] = "running",
               !.sessions = @ \cup {t}]
        /\ last' = Step("createTerminal", 0, "ok", t)
    /\ UNCHANGED offTermVars

\* closeTerminal up to its await, called by a client, by
\* cleanupInactiveSessions or by cleanup: without a session it returns;
\* else the PTY is killed, the record is closed and the save is awaited.
\* Killing a process that has exited can throw, which is logged
CloseTerminal ==
    /\ \E t \in Terminals, killThrows \in BOOLEAN :
        LET sessions == terminalManager.sessions
            ptyState == terminalManager.ptyState
        IN  /\ ptyState[t] # "none"
            /\ killThrows => ptyState[t] = "exited"
            /\ IF t \in sessions /\ ~killThrows
               THEN /\ terminalManager.closing[t] < MaxClosing
                    /\ terminalManager' = [terminalManager EXCEPT
                           !.ptyState[t] = ptyAfterKill(@),
                           !.closing[t] = @ + 1]
                    /\ last' = Step("closeTerminal", 0, "saving", t)
               ELSE /\ last' = Step("closeTerminal", 0,
                                    IF t \in sessions THEN "logged"
                                    ELSE "returned", t)
                    /\ UNCHANGED terminalManager
    /\ UNCHANGED offTermVars

\* the PTY process ends, killed or by itself: the onExit handler emits
\* "exit" and calls closeTerminal, which runs up to its await
PtyExit ==
    /\ \E t \in Terminals, killThrows \in BOOLEAN :
        LET sessions == terminalManager.sessions
        IN  /\ terminalManager.ptyState[t] \in {"running", "killed"}
            /\ IF t \in sessions /\ ~killThrows
               THEN /\ terminalManager.closing[t] < MaxClosing
                    /\ terminalManager' = [terminalManager EXCEPT
                           !.ptyState[t] = "exited",
                           !.closing[t] = @ + 1]
                    /\ last' = Step("onExit", 0, "saving", t)
               ELSE /\ terminalManager' = [terminalManager EXCEPT
                           !.ptyState[t] = "exited"]
                    /\ last' = Step("onExit", 0,
                                    IF t \in sessions THEN "logged"
                                    ELSE "returned", t)
    /\ UNCHANGED offTermVars

\* terminalRepository.save returns to a closeTerminal call: the session is
\* deleted and "closed" is emitted; when it throws the error is logged
SaveReturns ==
    /\ \E t \in Terminals, saved \in BOOLEAN :
        /\ terminalManager.closing[t] > 0
        /\ IF saved
           THEN /\ terminalManager' = [terminalManager EXCEPT
                       !.closing[t] = @ - 1,
                       !.sessions = @ \ {t},
                       !.closedEmitted[t] = @ + 1]
                /\ last' = Step("closeTerminal", 0, "closed", t)
           ELSE /\ terminalManager' = [terminalManager EXCEPT
                       !.closing[t] = @ - 1]
                /\ last' = Step("closeTerminal", 0, "logged", t)
    /\ UNCHANGED offTermVars

NextTerm ==
    \/ CreateTerminal
    \/ CloseTerminal
    \/ PtyExit
    \/ SaveReturns

SpecTerm == InitTerm /\ [][NextTerm]_vars

\* ------------------------------------------------------------------------
\* The auth store of the client: login, register, logout, refreshToken and
\* initialize of useAuthStore
\* ------------------------------------------------------------------------

\* a call of authService that awaits its response
AuthCall(op, startedAfter) == [op |-> op, startedAfter |-> startedAfter]

InitAuth ==
    /\ QuietInit
    /\ AppWith("authStore")

\* what logout() sets: user and token are cleared
loggedOut(st) ==
    [st EXCEPT !.authUser = Null,
               !.authToken = Null,
               !.isAuthenticated = FALSE,
               !.authError = Null,
               !.logouts = @ + 1,
               !.loggedInSince = FALSE]

\* login or register up to its await: isLoading is set and the error
\* cleared
StartLogin ==
    /\ Cardinality(authStore.authCalls) < MaxAuthCalls
    /\ \E op \in {"login", "register"} :
        /\ authStore' = [authStore EXCEPT
               !.authCalls = @ \cup {AuthCall(op, authStore.logouts)},
               !.isLoading = TRUE,
               !.authError = Null]
        /\ last' = Step(op, 0, "called", authStore.logouts)
    /\ UNCHANGED offAuthVars

\* authService.login or register answers: the user and the token of the
\* response are set, or the error is
FinishLogin ==
    /\ \E call \in authStore.authCalls, ok \in BOOLEAN :
        /\ call.op \in {"login", "register"}
        /\ IF ok
           THEN authStore' = [authStore EXCEPT
                    !.authCalls = @ \ {call},
                    !.authUser = "user",
                    !.authToken = "token",
                    !.isAuthenticated = TRUE,
                    !.isLoading = FALSE,
                    !.authError = Null,
                    !.loggedInSince =
                        (@ \/ call.startedAfter = authStore.logouts)]
           ELSE authStore' = [authStore EXCEPT
                    !.authCalls = @ \ {call},
                    !.isLoading = FALSE,
                    !.authError = "failed"]
        /\ last' = Step(call.op, 0, IF ok THEN "ok" ELSE "failed",
                        call.startedAfter)
    /\ UNCHANGED offAuthVars

\* logout(): the logout request is sent and not awaited; user and token
\* are cleared
Logout ==
    /\ authStore.logouts < MaxLogouts
    /\ authStore' = loggedOut(authStore)
    /\ last' = Step("logout", 0, "ok", authStore.logouts + 1)
    /\ UNCHANGED offAuthVars

\* refreshToken up to its await: it returns at once without a token
StartRefresh ==
    LET call == AuthCall("refreshToken", authStore.logouts)
    IN  /\ Cardinality(authStore.authCalls) < MaxAuthCalls
        /\ call \notin authStore.authCalls
        /\ IF authStore.authToken # Null
           THEN authStore' = [authStore EXCEPT !.authCalls = @ \cup {call}]
           ELSE UNCHANGED authStore
        /\ last' = Step("refreshToken", 0,
                        IF authStore.authToken # Null THEN "called"
                        ELSE "returned", authStore.logouts)
        /\ UNCHANGED offAuthVars

\* authService.refreshToken answers: the new token is set, or logout() is
\* called
FinishRefresh ==
    /\ \E call \in authStore.authCalls, ok \in BOOLEAN :
        /\ call.op = "refreshToken"
        /\ IF ok
           THEN authStore' = [authStore EXCEPT
                    !.authCalls = @ \ {call},
                    !.authToken = "refreshed",
                    !.authError = Null]
           ELSE /\ authStore.logouts < MaxLogouts
                /\ authStore' = loggedOut(
                       [authStore EXCEPT !.authCalls = @ \ {call}])
        /\ last' = Step("refreshToken", 0, IF ok THEN "ok" ELSE "failed",
                        call.startedAfter)
    /\ UNCHANGED offAuthVars

\* initialize(): with a token and a user, isAuthenticated is set and
\* getCurrentUser is asked
InitializeAuth ==
    LET call == AuthCall("initialize", authStore.logouts)
        loaded == authStore.authToken # Null /\ authStore.authUser # Null
    IN  /\ Cardinality(authStore.authCalls) < MaxAuthCalls
        /\ call \notin authStore.authCalls
        /\ IF loaded
           THEN authStore' = [authStore EXCEPT
                    !.isAuthenticated = TRUE,
                    !.authCalls = @ \cup {call}]
           ELSE UNCHANGED authStore
        /\ last' = Step("initialize", 0,
                        IF loaded THEN "called" ELSE "returned",
                        authStore.logouts)
        /\ UNCHANGED offAuthVars

\* authService.getCurrentUser answers initialize: the user of the response
\* is set, or logout() is called
FinishInitialize ==
    /\ \E call \in authStore.authCalls, ok \in BOOLEAN :
        /\ call.op = "initialize"
        /\ IF ok
           THEN authStore' = [authStore EXCEPT
                    !.authCalls = @ \ {call},
                    !.authUser = "user"]
           ELSE /\ authStore.logouts < MaxLogouts
                /\ authStore' = loggedOut(
                       [authStore EXCEPT !.authCalls = @ \ {call}])
        /\ last' = Step("initialize", 0, IF ok THEN "ok" ELSE "failed",
                        call.startedAfter)
    /\ UNCHANGED offAuthVars

NextAuth ==
    \/ StartLogin
    \/ FinishLogin
    \/ Logout
    \/ StartRefresh
    \/ FinishRefresh
    \/ InitializeAuth
    \/ FinishInitialize

SpecAuth == InitAuth /\ [][NextAuth]_vars

\* ------------------------------------------------------------------------
\* The socket store of the client: connect and disconnect of
\* useSocketStore and the listeners connect puts on a socket
\* ------------------------------------------------------------------------

\* the sockets the application makes
Sockets == {"socket1", "socket2", "socket3"}

\* the events connect() listens to
SocketEvents ==
    {"connect", "disconnect", "connect_error", "reconnect",
     "reconnect_error"}

\* isConnected after the listener of an event has run
connectedAfter(ev, connected) ==
    CASE ev \in {"connect", "reconnect"} -> TRUE
      [] ev \in {"disconnect", "connect_error"} -> FALSE
      [] OTHER -> connected

\* connectionError after the listener of an event has run
errorAfter(ev, error) ==
    CASE ev \in {"connect", "reconnect"} -> Null
      [] ev \in {"connect_error", "reconnect_error"} -> "message"
      [] OTHER -> error

\* reconnectAttempts after the listener of an event has run
attemptsAfter(ev, attempts) ==
    CASE ev \in {"connect", "reconnect"} -> 0
      [] ev \in {"connect_error", "reconnect_error"} -> attempts + 1
      [] OTHER -> attempts

InitSock ==
    /\ QuietInit
    /\ AppWith("socketStore")

\* connect(socket): the socket of the store, if any, is disconnected, which
\* emits its "disconnect" when it was connected; the listeners are put on
\* the new socket and it becomes the socket of the store
ConnectSocket ==
    /\ \E new \in Sockets \ socketStore.listening,
          wasConnected \in BOOLEAN :
        /\ wasConnected => socketStore.socket # Null
        /\ socketStore' = [socketStore EXCEPT
               !.isConnected = IF wasConnected
                               THEN connectedAfter("disconnect", @)
                               ELSE @,
               !.listening = @ \cup {new},
               !.socket = new]
        /\ last' = Step("connect", 0, "ok", new)
    /\ UNCHANGED offSockVars

\* disconnect(): the socket of the store is disconnected and the state is
\* reset; without a socket nothing is done
DisconnectSocket ==
    /\ socketStore.socket # Null
    /\ socketStore' = [socketStore EXCEPT !.socket = Null,
                                          !.isConnected = FALSE,
                                          !.connectionError = Null,
                                          !.reconnectAttempts = 0]
    /\ last' = Step("disconnect", 0, "ok", socketStore.socket)
    /\ UNCHANGED offSockVars

\* a socket that has the listeners emits an event
SocketEmits ==
    /\ \E from \in socketStore.listening, ev \in SocketEvents :
        /\ attemptsAfter(ev, socketStore.reconnectAttempts) <= MaxAttempts
        /\ socketStore' = [socketStore EXCEPT
               !.isConnected = connectedAfter(ev, @),
               !.connectionError = errorAfter(ev, @),
               !.reconnectAttempts = attemptsAfter(ev, @)]
        /\ last' = Step("socketEvent", 0, ev, from)
    /\ UNCHANGED offSockVars

NextSock ==
    \/ ConnectSocket
    \/ DisconnectSocket
    \/ SocketEmits

SpecSock == InitSock /\ [][NextSock]_vars

\* ------------------------------------------------------------------------
\* Presenting the assistant message: processStreamChunk,
\* presentAssistantMessage with its lock and pending flag, and
\* presentToolUseBlock
\* ------------------------------------------------------------------------

\* the content blocks parseAssistantMessageV2 gives: text, a tool_use that
\* is still streaming, a complete tool_use
BlockTypes == {"text", "partial_tool_use", "tool_use"}

\* what the next chunk can make of the content: nothing new, the last
\* block completed, or one more block
parsedNext(content) ==
    {content}
    \cup { [content EXCEPT ![Len(content)] = "tool_use"] :
             x \in { y \in {1} : /\ content # <<>>
                                 /\ content[Len(content)]
                                       = "partial_tool_use" } }
    \cup { Append(content, b) :
             b \in { y \in BlockTypes : Len(content) < MaxPresentBlocks } }

InitPresent ==
    /\ QuietInit
    /\ AppWith("presentState")

\* processStreamChunk: the text of the chunk is parsed and
\* presentAssistantMessage is called, which takes the lock and enters its
\* loop, or, the lock being held, sets the pending flag and returns
ProcessStreamChunk ==
    /\ presentState.presentPc # "failed"
    /\ \E content \in parsedNext(presentState.contentBlocks) :
        IF presentState.presentAssistantMessageLocked
        THEN /\ presentState' = [presentState EXCEPT
                    !.contentBlocks = content,
                    !.presentAssistantMessageHasPendingUpdates = TRUE]
             /\ last' = Step("present", 0, "pending", <<>>)
        ELSE /\ presentState' = [presentState EXCEPT
                    !.contentBlocks = content,
                    !.presentAssistantMessageLocked = TRUE,
                    !.presentPc = "loop",
                    !.inPass = @ + 1]
             /\ last' = Step("present", 0, "locked", <<>>)
    /\ UNCHANGED offPresentVars

\* the loop of presentAssistantMessage presents a text block or a tool_use
\* block that is still streaming, and moves the index on
PresentTextBlock ==
    LET at == presentState.currentStreamingContentIndex
        content == presentState.contentBlocks
    IN  /\ presentState.presentPc = "loop"
        /\ at < Len(content)
        /\ content[at + 1] # "tool_use"
        /\ presentState' = [presentState EXCEPT
               !.currentStreamingContentIndex = @ + 1]
        /\ last' = Step("present", 0, content[at + 1], at)
        /\ UNCHANGED offPresentVars

\* the loop of presentAssistantMessage presents a complete tool_use block:
\* executeToolUse is called and the index moves on, or
\* handleToolExecutionError throws and the loop is left for the finally
\* block
PresentCompleteToolUse ==
    LET at == presentState.currentStreamingContentIndex
        content == presentState.contentBlocks
    IN  /\ presentState.presentPc = "loop"
        /\ at < Len(content)
        /\ content[at + 1] = "tool_use"
        /\ presentState.executed[at + 1] < MaxExecutions
        /\ \E thrown \in BOOLEAN :
            IF thrown
            THEN /\ presentState' = [presentState EXCEPT
                        !.executed[at + 1] = @ + 1,
                        !.presentPc = "finally",
                        !.presentError = TRUE]
                 /\ last' = Step("present", 0, "thrown", at)
            ELSE /\ presentState' = [presentState EXCEPT
                        !.executed[at + 1] = @ + 1,
                        !.currentStreamingContentIndex = @ + 1]
                 /\ last' = Step("present", 0, "tool_use", at)
        /\ UNCHANGED offPresentVars

\* the loop of presentAssistantMessage has no block left
PresentLoopEnds ==
    /\ presentState.presentPc = "loop"
    /\ presentState.currentStreamingContentIndex
           >= Len(presentState.contentBlocks)
    /\ presentState' = [presentState EXCEPT !.presentPc = "finally"]
    /\ last' = Step("present", 0, "done",
                    presentState.currentStreamingContentIndex)
    /\ UNCHANGED offPresentVars

\* the finally block of presentAssistantMessage: the lock is released;
\* with the pending flag set, the flag is cleared and
\* presentAssistantMessage is called again, which takes the lock; else the
\* call returns, or the error of its block is thrown on and ends the stream
PresentFinally ==
    /\ presentState.presentPc = "finally"
    /\ IF presentState.presentAssistantMessageHasPendingUpdates
       THEN /\ presentState' = [presentState EXCEPT
                   !.presentAssistantMessageHasPendingUpdates = FALSE,
                   !.presentAssistantMessageLocked = TRUE,
                   !.presentPc = "loop"]
            /\ last' = Step("present", 0, "again", <<>>)
       ELSE /\ presentState' = [presentState EXCEPT
                   !.presentAssistantMessageHasPendingUpdates = FALSE,
                   !.presentAssistantMessageLocked = FALSE,
                   !.presentPc = IF presentState.presentError
                                 THEN "failed" ELSE "idle",
                   !.inPass = @ - 1]
            /\ last' = Step("present", 0, "returned", <<>>)
    /\ UNCHANGED offPresentVars

NextPresent ==
    \/ ProcessStreamChunk
    \/ PresentTextBlock
    \/ PresentCompleteToolUse
    \/ PresentLoopEnds
    \/ PresentFinally

SpecPresent == InitPresent /\ [][NextPresent]_vars

\* ------------------------------------------------------------------------
\* Properties of the truncation planner and its caller (SpecPlan)
\* ------------------------------------------------------------------------

\* the step just taken handed a history to the model
RequestSent == last.op \in {"attempt", "streamingError"}

\* Message.role: the task statement at index 0 is a user message and the
\* roles alternate from there
role(i) == IF i % 2 = 0 THEN "user" ELSE "assistant"

C2_CoverageMonotone == [][omitted \subseteq omitted']_vars

\* C3: when over budget, a half is elided exactly when the overage ratio is
\* at least 2x and a quarter for every smaller overage.
C3_SeverityByOverage ==
    [][ (last'.op = "attempt" /\ last'.tokens >= maxAllowedSize(api))
        => range' = getNextTruncationRange(N, range,
                        IF last'.tokens >= 2 * maxAllowedSize(api)
                        THEN "half" ELSE "quarter") ]_vars

\* C4: newStart = R.end + 1 (or 1), newEnd = min(newStart + floor(N x f),
\* N - tailKeep - 1); for 40 messages, no prior range and a 1.3x overage
\* the range is [1, 11] and indices 1-11 are left out.
C4_RangeFormula ==
    [][ (last'.op = "attempt" /\ last'.tokens >= maxAllowedSize(api))
        => /\ range' =
                <<startIndex(range),
                  Min(startIndex(range)
                        + truncateAmount(N, truncationTypeFor(last'.tokens,
                                                 maxAllowedSize(api))),
                      N - TailKeep - 1)>>
           /\ (/\ N = 40
               /\ range = NoRange
               /\ last'.tokens = (13 * maxAllowedSize(api)) \div 10)
              => (range' = <<1, 11>> /\ omitted' = 1 .. 11) ]_vars

\* C5: the caller is never handed a range whose start is not below its end.
C5_NoInvertedRange ==
    range # NoRange => range[1] < range[2]

\* C6: a range the planner produces ends on a complete user/assistant turn:
\* its last elided message is an assistant message, so the user message of
\* a turn is never elided while its assistant reply is kept.
C6_EndsOnTurnBoundary ==
    (range # NoRange /\ range[1] <= range[2])
        => role(range[2]) = "assistant"

\* C12: when the token total is within the budget (at most
\* maxAllowedSize) the request leaves the persisted range unchanged and
\* sends the history filtered by it.
C12_WithinBudgetUnchanged ==
    [][ (last'.op = "attempt" /\ last'.tokens <= maxAllowedSize(api))
        => /\ range' = range
           /\ omitted' = (0 .. N - 1) \ keptIndices(N, range) ]_vars

\* C12 as amended: attemptApiRequest leaves the range unchanged and sends
\* the history filtered by it when the token total is below
\* maxAllowedSize; at or above it the planner's next range, which starts
\* after the old one, replaces the range.
C12_BelowBudgetUnchanged ==
    [][ last'.op = "attempt"
        => IF last'.tokens < maxAllowedSize(api)
           THEN /\ range' = range
                /\ omitted' = (0 .. N - 1) \ keptIndices(N, range)
           ELSE /\ range' # NoRange
                /\ range'[1] = startIndex(range) ]_vars

\* C12 witness: a request below the budget was made while a range was in
\* force and messages were left out.
C12_Witness ==
    /\ last.op = "attempt"
    /\ last.tokens < maxAllowedSize(api)
    /\ range # NoRange
    /\ omitted # {}


\* ------------------------------------------------------------------------
\* Properties of the overlay (SpecStore)
\* ------------------------------------------------------------------------

\* C7: after pruning, every block that had an update still has its latest
\* update, even when that update is older than the cutoff.
C7_LatestSurvivesPrune ==
    [][ last'.op = "prune"
        => \A k \in DOMAIN contextHistoryUpdates :
            /\ k \in DOMAIN contextHistoryUpdates'
            /\ Last(contextHistoryUpdates'[k])
                 = Last(contextHistoryUpdates[k]) ]_vars

\* C7 as amended: after pruning, a block whose latest update is newer than
\* the cutoff still has that update as its latest; a block whose latest
\* update is not newer than the cutoff has no update left.
C7_PruneKeepsNewerLatest ==
    [][ last'.op = "prune"
        => \A k \in DOMAIN contextHistoryUpdates :
            IF Last(contextHistoryUpdates[k]).timestamp > last'.arg.cutoff
            THEN /\ k \in DOMAIN contextHistoryUpdates'
                 /\ Last(contextHistoryUpdates'[k])
                      = Last(contextHistoryUpdates[k])
            ELSE k \notin DOMAIN contextHistoryUpdates' ]_vars

\* C7 witness: a prune has dropped every update of one block and left
\* another block with updates.
C7_Witness ==
    /\ last.op = "prune"
    /\ last.arg.dropped # {}
    /\ DOMAIN contextHistoryUpdates # {}

C9_EarlierBlockReplaced ==
    (last.op = "handleRead" /\ hasFileBeenRead(last.arg[2], last.arg[1]))
    => /\ \E x \in fileReads :
            /\ x[2] = last.arg[2]
            /\ x[1] < last.arg[1]
            /\ renderBlock(contextHistoryUpdates, x[1], 0).kind
                 = "previouslyRead"
       /\ renderBlock(contextHistoryUpdates, last.arg[1], 0)
            = [kind |-> "file", path |-> last.arg[2]]

\* C9 as amended: when handleReadFileToolCall processes a later message
\* that re-reads a path an earlier message holds, block 0 of the later
\* message renders as the placeholder naming the path and every other
\* block of the overlay is left as it was.
C9_LaterBlockReplaced ==
    [][ (last'.op = "handleRead"
            /\ hasFileBeenRead(last'.arg[2], last'.arg[1]))
        => LET key == <<last'.arg[1], 0>>
           IN  /\ renderBlock(contextHistoryUpdates', key[1], 0)
                    = [kind |-> "previouslyRead", path |-> last'.arg[2]]
               /\ DOMAIN contextHistoryUpdates'
                    = DOMAIN contextHistoryUpdates \cup {key}
               /\ \A k \in DOMAIN contextHistoryUpdates \ {key} :
                    contextHistoryUpdates'[k] = contextHistoryUpdates[k]
      ]_vars

\* C9 witness: the same path is read at indices 5 and 20; after index 20
\* is processed it renders as the placeholder and index 5 renders the file.
C9_Witness ==
    /\ last.op = "handleRead"
    /\ last.arg[1] = 20
    /\ <<5, last.arg[2]>> \in fileReads
    /\ renderBlock(contextHistoryUpdates, 20, 0)
         = [kind |-> "previouslyRead", path |-> last.arg[2]]
    /\ renderBlock(contextHistoryUpdates, 5, 0)
         = [kind |-> "file", path |-> last.arg[2]]

C13_CommitThenRestoreIdentity ==
    [][ (rpc = "reset" /\ rpc' = "verify" /\ pristine = rhash)
        => /\ work' = work
           /\ ignored' = ignored ]_vars

RestoreTouchedNothing ==
    UNCHANGED <<work, ignored, index, commits, head, checkpoints>>

C17_CheckpointsAppendOnly ==
    [][ /\ Len(checkpoints') >= Len(checkpoints)
        /\ \A i \in 1 .. Len(checkpoints) : checkpoints'[i] = checkpoints[i]
        /\ rpc' # rpc => checkpoints' = checkpoints
        /\ cpc' # "returned" =>
             checkpoints' = [i \in 1 .. Len(commits') - 1 |-> i + 1] ]_vars

\* C17 witness: with two checkpoints recorded, a restore to the older one
\* has succeeded.
C17_Witness ==
    /\ Len(checkpoints) >= 2
    /\ last = Step("restore", 0, RestoreOk, checkpoints[1])
    /\ head = checkpoints[1]

C20_CommitRestoreExclusive ==
    ~(cpc \in {"adding", "committing"} /\ rpc \in {"reset", "verify"})

C21_NothingStartsAfterAbort ==
    [][ /\ abort => ~(toolpc # "running" /\ toolpc' = "running")
        /\ abort => ~(cpc # "adding" /\ cpc' = "adding")
        /\ abort' # abort => UNCHANGED <<cpc, index, commits, head>> ]_vars

\* C26: a commit whose staging failed adds no checkpoint to the list, and
\* a commit that throws adds none and leaves the task loop running.
C26_FailedCommitIsSoft ==
    [][ /\ (/\ cpc = "returned" /\ cpc' = "idle"
            /\ ret # NoHash /\ pristine = ret
            /\ commits[ret].snap # work) => checkpoints' = checkpoints
        /\ (/\ cpc \in {"adding", "committing"}
            /\ last'.op = "commit"
            /\ last'.status = "Failed to create checkpoint") =>
                (checkpoints' = checkpoints /\ loopPc' # "failed") ]_vars

\* C28: a further call of create leaves the commits, HEAD, the index, the
\* configuration and the checkpoint list as they were.
C28_CreateAgainChangesNothing ==
    [][(last'.op = "create" /\ last' # last) =>
            UNCHANGED <<commits, head, index, gitConfig, checkpoints>>]_vars

\* ------------------------------------------------------------------------
\* Properties of the exclusion patterns (SpecExcl)
\* ------------------------------------------------------------------------

\* C27: a call returns the six default patterns, then the patterns of
\* .gitignore, then those of .clineignore, each in file order; a call
\* that finds both files as the call before read them returns the same
\* list.
C27_DefaultsThenProjectThenAgent ==
    [][(last'.op = "getExclusionPatterns" /\ last' # last) =>
        LET kept(file) ==
                IF file.exists
                THEN SelectSeq(file.lines, LAMBDA l :
                         l.marker # "#" /\ l # Line("", ""))
                ELSE <<>>
        IN  /\ patterns' =
                << Line("", "node_modules/**"), Line("", ".git/**"),
                   Line("", "*.log"), Line("", "tmp/**"),
                   Line("", ".DS_Store"), Line("", "Thumbs.db") >>
                \o kept(gitignore) \o kept(clineignore)
            /\ patternsFor = {<<gitignore, clineignore>>} =>
                   patterns' = patterns]_vars

\* C27 witness: a second call found both files unchanged; each holds a
\* pattern, and the project's file a comment as well.
C27_Witness ==
    /\ last = Step("getExclusionPatterns", 0, "unchanged", <<>>)
    /\ gitignore = IgnoreFile(TRUE, <<Line("#", " build output"),
                                      Line("", "dist/")>>)
    /\ clineignore = IgnoreFile(TRUE, <<Line("!", "dist/keep.js")>>)
    /\ Len(patterns) = 8
    /\ patterns[7] = Line("", "dist/")
    /\ patterns[8] = Line("!", "dist/keep.js")

\* ------------------------------------------------------------------------
\* Properties of the file access (SpecFiles)
\* ------------------------------------------------------------------------

\* C30: every file system call of FileManager acts on a path inside the
\* repository it was called for.
C30_AccessInsideRepository ==
    \A a \in accessed : inside(a.repo, a.path)

\* ------------------------------------------------------------------------
\* Properties of the batched persistence (SpecFlush, SpecFlushFair)
\* ------------------------------------------------------------------------

\* flush i ends in its catch block in this step
FlushFails(i) ==
    /\ flushes[i].pc # "idle"
    /\ flushes'[i].pc = "idle"
    /\ last' = Step("flush", 0, "logged", i)

C23_FailedFlushKeepsLastGood ==
    [][\A i \in 1 .. MaxFlushes : FlushFails(i) => disk' = lastGood]_vars

\* C24: every pending update is eventually in the file.
C24_EveryUpdatePersisted ==
    \A m \in 1 .. MaxSaved : [](m \in pendingUpdates => <>Persisted(m))

C32_CancelledStays ==
    webTask.shouldAbort =>
        webTask.taskStatus \notin {"completed", "failed"}

\* C33: after abort() the loop stops and isRunning becomes false.
C33_AbortStopsLoop ==
    webTask.shouldAbort ~> ~webTask.isRunning

\* the roles alternate, user first
alternates(history) ==
    \A i \in DOMAIN history :
        history[i].role = IF i % 2 = 1 THEN "user" ELSE "assistant"

\* the number of assistant entries that hold response r
timesRecorded(history, r) ==
    Cardinality({ i \in DOMAIN history :
                    history[i] = Entry("assistant", r) })

\* C34: the history alternates between user and assistant, user first,
\* and every response that was processed is in it once.
C34_HistoryAlternates ==
    /\ alternates(webTask.conversationHistory)
    /\ webTask.webPc \in {"waiting", "ended"} =>
           \A r \in 1 .. webTask.requests :
               (webTask.taskStatus # "failed" \/ r < webTask.requests) =>
                   timesRecorded(webTask.conversationHistory, r) = 1

\* C31: when restore(h) of the commit h that commit() returned last has
\* succeeded, and commit h holds the checkpointed file as it was at commit
\* time, the file is as it was at commit time: that content, or absent when
\* it did not exist then.
C31_RestoreDiscardsChanges ==
    (/\ last = Step("restore", 0, RestoreOk, rhash)
     /\ rhash = ret
     /\ rhash = Len(commits)
     /\ commits[rhash].snap = atCommit)
        => work = atCommit

\* the request that opened the window request i falls in: i itself when it
\* is the first of its key or comes after the end of the window of the
\* request of its key before it
RECURSIVE opener(_, _)
opener(reqs, i) ==
    LET before == { j \in 1 .. i - 1 : reqs[j].key = reqs[i].key }
    IN  IF before = {} THEN i
        ELSE LET j == CHOOSE x \in before : \A y \in before : y <= x
                 o == opener(reqs, j)
             IN  IF reqs[i].at > reqs[o].at + windowMs THEN i ELSE o

\* the requests up to i that fall in the window of request i
windowUpTo(reqs, i) ==
    { j \in 1 .. i : /\ reqs[j].key = reqs[i].key
                     /\ opener(reqs, j) = opener(reqs, i) }

C36_AtMostOneRefresh ==
    apiClient.refreshes <= 1

\* C37: "closed" is emitted at most once for each terminal.
C37_ClosedOnce ==
    \A t \in Terminals : terminalManager.closedEmitted[t] <= 1

\* C38: after a logout, and until a login or register started after it
\* has succeeded, the token and the user are null and isAuthenticated is
\* false.
C38_LoggedOutStays ==
    (authStore.logouts > 0 /\ ~authStore.loggedInSince) =>
        /\ authStore.authToken = Null
        /\ authStore.authUser = Null
        /\ ~authStore.isAuthenticated

\* C39: a disconnect, connect_error or reconnect event of a socket that is
\* not the socket of the store leaves isConnected, connectionError and
\* reconnectAttempts as they are.
C39_OnlyCurrentSocket ==
    [][(/\ last'.op = "socketEvent"
        /\ last'.status \in {"disconnect", "connect_error", "reconnect"}
        /\ last'.arg # socketStore.socket) =>
           /\ socketStore'.isConnected = socketStore.isConnected
           /\ socketStore'.connectionError = socketStore.connectionError
           /\ socketStore'.reconnectAttempts
                  = socketStore.reconnectAttempts]_vars

\* C40: at most one call of presentAssistantMessage is past the lock at a
\* time, and executeToolUse is called at most once for each block.
C40_OnePassOneExecution ==
    /\ presentState.inPass <= 1
    /\ \A i \in DOMAIN presentState.executed :
           presentState.executed[i] <= 1

====
